---- MODULE Spec2Model ----
(***************************************************************************)
(* Signal generation and confluence scoring of the trading HUD             *)
(* (src/js/signals.js) together with the packaging step of computeAll      *)
(* (indicators engine) that produces the indicator snapshot it consumes.   *)
(*                                                                         *)
(* Number representation.  JavaScript doubles are modelled by exact        *)
(* fixed-point integers:                                                   *)
(*   - sub-signals are in thousandths   (1.0 -> 1000, 0.7 -> 700);         *)
(*   - Bollinger %B is in hundredths    (0.05 -> 5, 1.0 -> 100);           *)
(*   - prices, ATR and Fibonacci levels are in integer ticks; the sampled  *)
(*     inputs are chosen so that *0.01, *1.5 and the Fibonacci fractions   *)
(*     are exact;                                                          *)
(*   - riskReward (a toFixed(2) string) is the number of hundredths.       *)
(* A nullable number is <<>> (null) or <<n>>; a text value is a pair.      *)
(***************************************************************************)
EXTENDS Integers, Sequences, FiniteSets, TLC

VARIABLES
    pc,             \* position of the modelled caller
    indicators,     \* the snapshot returned by computeAll
    signals,        \* getIndicatorSignals(indicators)
    score,          \* calculateConfluenceScore(signals)
    signalType,     \* getSignalType(score)
    targets,        \* calculateTargets(indicators, signalType)
    timeframe,      \* the timeframe argument of generateSignal
    tradePlan,      \* buildTradePlan(indicators, signalType, targets, timeframe)
    breakdown,      \* the per-indicator breakdown built by generateSignal
    candles,        \* the candle array passed to computeAll
    error,          \* the exception thrown by the latest call, or null
    args,           \* arguments of a directly called indicator function
    result,         \* its return value
    signalHistory,  \* module-level array signalHistory
    recorded,       \* ghost: every entry ever pushed, in push order
    offered,        \* the signal passed to the latest recordSignal call
    changed,        \* return value of the latest recordSignal call
    prevHistory,    \* ghost: signalHistory before the latest call
    now,            \* Date.now() clock, one tick per generated signal
    richCalls,      \* number of freely chosen offers so far
    currentPair,        \* app.js: the selected pair
    currentTimeframe,   \* app.js: the selected timeframe
    isPredictionMode,   \* app.js: the prediction toggle
    currentSignal,      \* app.js: the latest generated signal
    refreshInterval,    \* app.js: whether the auto-refresh timer is armed
    calls,              \* the fetchAndAnalyze invocations, in call order
    running,            \* the invocation executing on the JavaScript thread, or 0
    sectionLog,         \* ghost: the analysis steps executed, in order
    sockets,            \* kraken.js: readyState of every WebSocket constructed
    reconnectTimer,     \* kraken.js: the reconnect timeout of the stream
    isClosing,          \* kraken.js: close() has been called on the stream
    onErrorCalls,       \* number of onError callbacks made
    livePrice           \* app.js: the latest price delivered by onPrice

vars == <<pc, indicators, signals, score, signalType, targets,
          timeframe, tradePlan, breakdown, candles, error, args, result,
          signalHistory, recorded, offered, changed, prevHistory, now, richCalls,
          currentPair, currentTimeframe, isPredictionMode, currentSignal,
          refreshInterval, calls, running, sectionLog,
          sockets, reconnectTimer, isClosing, onErrorCalls, livePrice>>

appVars == <<currentPair, currentTimeframe, isPredictionMode, currentSignal,
             refreshInterval, calls, running, sectionLog>>

streamVars == <<sockets, reconnectTimer, isClosing, onErrorCalls, livePrice>>

scoringVars == <<indicators, signals, score, signalType, targets, tradePlan, breakdown>>
inputVars == <<candles, timeframe, error>>
callVars == <<args, result>>
historyVars == <<signalHistory, recorded, offered, changed, prevHistory, now, richCalls>>

(***************************************************************************)
(* JavaScript values                                                       *)
(***************************************************************************)
Null == <<>>
Num(n) == <<n>>
IsNull(x) == x = Null
\* typeof x === 'number' and x is not NaN
IsNumber(x) == Len(x) = 1
Val(x) == x[1]
\* ToNumber coercion used by the relational operators: null -> 0
ToNum(x) == IF IsNull(x) THEN 0 ELSE x[1]
JsGT(a, b) == ToNum(a) > ToNum(b)
JsLT(a, b) == ToNum(a) < ToNum(b)
\* a || b on numbers: null, undefined and 0 are falsy
JsOr(a, b) == IF IsNull(a) \/ Val(a) = 0 THEN b ELSE Val(a)

Abs(x) == IF x < 0 THEN -x ELSE x
Min(a, b) == IF a < b THEN a ELSE b
Max(a, b) == IF a > b THEN a ELSE b
\* Math.round(num/den), den > 0: nearest integer, halves towards +Infinity
MathRound(num, den) == (2 * num + den) \div (2 * den)

(***************************************************************************)
(* Weights                                                                 *)
(***************************************************************************)
Keys == <<"rsi", "macdCross", "macdDivergence", "bollingerBands",
          "stochastic", "emaCross", "adxTrend", "volumeOBV">>

WEIGHTS == [rsi |-> 15, macdCross |-> 20, macdDivergence |-> 15,
            bollingerBands |-> 10, stochastic |-> 10, emaCross |-> 15,
            adxTrend |-> 10, volumeOBV |-> 5]

RECURSIVE SumWeights(_)
SumWeights(i) == IF i = 0 THEN 0 ELSE WEIGHTS[Keys[i]] + SumWeights(i - 1)

TOTAL_WEIGHT == SumWeights(Len(Keys))

(***************************************************************************)
(* getIndicatorSignals: one operator per block of the function             *)
(***************************************************************************)
\* mutation: the null check is missing and null compares as 0
RsiSignal_noNullCheck(ind) ==
    LET rsiVal == ToNum(ind.rsi.value) IN
    IF rsiVal < 20 THEN 1000
    ELSE IF rsiVal < 30 THEN 700
    ELSE IF rsiVal < 40 THEN 300
    ELSE IF rsiVal > 80 THEN -1000
    ELSE IF rsiVal > 70 THEN -700
    ELSE IF rsiVal > 60 THEN -300
    ELSE 0

\* mutation: the RSI is read as trend strength, a high RSI counting as bullish
RsiSignal_trendFollowing(ind) ==
    IF ~IsNull(ind.rsi.value)
    THEN LET rsiVal == Val(ind.rsi.value) IN
         IF rsiVal < 20 THEN -1000
         ELSE IF rsiVal < 30 THEN -700
         ELSE IF rsiVal < 40 THEN -300
         ELSE IF rsiVal > 80 THEN 1000
         ELSE IF rsiVal > 70 THEN 700
         ELSE IF rsiVal > 60 THEN 300
         ELSE 0
    ELSE 0

RsiSignal(ind) ==
    IF ~IsNull(ind.rsi.value)
    THEN LET rsiVal == Val(ind.rsi.value) IN
         IF rsiVal < 20 THEN 1000
         ELSE IF rsiVal < 30 THEN 700
         ELSE IF rsiVal < 40 THEN 300
         ELSE IF rsiVal > 80 THEN -1000
         ELSE IF rsiVal > 70 THEN -700
         ELSE IF rsiVal > 60 THEN -300
         ELSE 0
    ELSE 0

\* mutation: the histogram momentum is looked at before the crossover flags
MacdCrossSignal_momentumFirst(ind) ==
    IF ~IsNull(ind.macd.macdLine)
    THEN IF ~IsNull(ind.macd.histogram)
            /\ ~IsNull(ind.macd.prevHistogram)
            /\ Val(ind.macd.histogram) > 0
            /\ Val(ind.macd.histogram) > Val(ind.macd.prevHistogram)
         THEN 500
         ELSE IF ~IsNull(ind.macd.histogram)
                 /\ ~IsNull(ind.macd.prevHistogram)
                 /\ Val(ind.macd.histogram) < 0
                 /\ Val(ind.macd.histogram) < Val(ind.macd.prevHistogram)
         THEN -500
         ELSE IF ind.macd.isBullishCross THEN 1000
         ELSE IF ind.macd.isBearishCross THEN -1000
         ELSE IF ~IsNull(ind.macd.histogram) /\ Val(ind.macd.histogram) > 0 THEN 200
         ELSE IF ~IsNull(ind.macd.histogram) /\ Val(ind.macd.histogram) < 0 THEN -200
         ELSE 0
    ELSE 0

MacdCrossSignal(ind) ==
    IF ~IsNull(ind.macd.macdLine)
    THEN IF ind.macd.isBullishCross THEN 1000
         ELSE IF ind.macd.isBearishCross THEN -1000
         ELSE IF ~IsNull(ind.macd.histogram)
              THEN LET hist == Val(ind.macd.histogram)
                       prevHist == ind.macd.prevHistogram
                   IN IF hist > 0 /\ ~IsNull(prevHist) /\ hist > Val(prevHist) THEN 500
                      ELSE IF hist > 0 THEN 200
                      ELSE IF hist < 0 /\ ~IsNull(prevHist) /\ hist < Val(prevHist) THEN -500
                      ELSE IF hist < 0 THEN -200
                      ELSE 0
              ELSE 0
    ELSE 0

\* mutation: strength / 100 and strength / 125
MacdDivergenceSignal_fullStrength(ind) ==
    IF ind.macd.divergence.type = "bullish"
    THEN 500 + 10 * ind.macd.divergence.strength
    ELSE IF ind.macd.divergence.type = "bearish"
    THEN -(500 + 10 * ind.macd.divergence.strength)
    ELSE IF ind.rsi.divergence.type = "bullish"
    THEN 400 + 8 * ind.rsi.divergence.strength
    ELSE IF ind.rsi.divergence.type = "bearish"
    THEN -(400 + 8 * ind.rsi.divergence.strength)
    ELSE 0

\* strength / 200 and strength / 250 in thousandths
MacdDivergenceSignal(ind) ==
    IF ind.macd.divergence.type = "bullish"
    THEN 500 + 5 * ind.macd.divergence.strength
    ELSE IF ind.macd.divergence.type = "bearish"
    THEN -(500 + 5 * ind.macd.divergence.strength)
    ELSE IF ind.rsi.divergence.type = "bullish"
    THEN 400 + 4 * ind.rsi.divergence.strength
    ELSE IF ind.rsi.divergence.type = "bearish"
    THEN -(400 + 4 * ind.rsi.divergence.strength)
    ELSE 0

BollingerSignal(ind) ==
    IF ~IsNull(ind.bollinger.percentB)
    THEN LET pctB == Val(ind.bollinger.percentB) IN
         IF pctB < 0 THEN 1000
         ELSE IF pctB < 5 THEN 800
         ELSE IF pctB < 20 THEN 400
         ELSE IF pctB > 100 THEN -1000
         ELSE IF pctB > 95 THEN -800
         ELSE IF pctB > 80 THEN -400
         ELSE 0
    ELSE 0

StochasticSignal(ind) ==
    IF ~IsNull(ind.stochastic.k)
    THEN IF ind.stochastic.isOversold /\ ind.stochastic.isBullishCross THEN 1000
         ELSE IF ind.stochastic.isOversold THEN 500
         ELSE IF ind.stochastic.isOverbought /\ ind.stochastic.isBearishCross THEN -1000
         ELSE IF ind.stochastic.isOverbought THEN -500
         ELSE IF ind.stochastic.isBullishCross THEN 300
         ELSE IF ind.stochastic.isBearishCross THEN -300
         ELSE 0
    ELSE 0

EmaCrossSignal(ind) ==
    IF ~IsNull(ind.ema.ema9) /\ ~IsNull(ind.ema.ema21)
    THEN LET justCrossedBullish == ind.ema.ema9AboveEma21 /\ ~ind.ema.prevEma9AboveEma21
             justCrossedBearish == ~ind.ema.ema9AboveEma21 /\ ind.ema.prevEma9AboveEma21
             base == IF justCrossedBullish THEN 1000
                     ELSE IF justCrossedBearish THEN -1000
                     ELSE IF ind.ema.ema9AboveEma21 THEN 300
                     ELSE -300
         IN IF ~IsNull(ind.ema.sma200)
            THEN IF ind.ema.priceAboveSma200 /\ base > 0 THEN Min(1000, base + 200)
                 ELSE IF ~ind.ema.priceAboveSma200 /\ base < 0 THEN Max(-1000, base - 200)
                 ELSE base
            ELSE base
    ELSE 0

AdxTrendSignal(ind) ==
    IF ~IsNull(ind.adx.value)
    THEN IF ind.adx.isStrong
         THEN IF ind.adx.isBullish THEN 700 ELSE -700
         ELSE 0
    ELSE 0

VolumeOBVSignal(ind) ==
    LET base == IF ind.obv.trend = "rising" THEN 500
                ELSE IF ind.obv.trend = "falling" THEN -500
                ELSE 0
    IN IF ind.vwap.priceAboveVwap /\ base > 0 THEN Min(1000, base + 300)
       ELSE IF ~ind.vwap.priceAboveVwap /\ base < 0 THEN Max(-1000, base - 300)
       ELSE base

getIndicatorSignals(ind) ==
    [rsi            |-> RsiSignal(ind),
     macdCross      |-> MacdCrossSignal(ind),
     macdDivergence |-> MacdDivergenceSignal(ind),
     bollingerBands |-> BollingerSignal(ind),
     stochastic     |-> StochasticSignal(ind),
     emaCross       |-> EmaCrossSignal(ind),
     adxTrend       |-> AdxTrendSignal(ind),
     volumeOBV      |-> VolumeOBVSignal(ind)]

(***************************************************************************)
(* calculateConfluenceScore                                                *)
(***************************************************************************)
\* WEIGHTS[key] || 0
WeightOf(key) == IF key \in DOMAIN WEIGHTS THEN WEIGHTS[key] ELSE 0

\* the for..of loop over Object.entries(signals), insertion order = Keys
RECURSIVE WeightedSum(_, _)
WeightedSum(sig, i) ==
    IF i = 0 THEN 0 ELSE WeightedSum(sig, i - 1) + sig[Keys[i]] * WeightOf(Keys[i])

\* Math.round((weightedSum / TOTAL_WEIGHT) * 100), weightedSum in thousandths
calculateConfluenceScore(sig) ==
    MathRound(WeightedSum(sig, Len(Keys)) * 100, TOTAL_WEIGHT * 1000)

(***************************************************************************)
(* getSignalType                                                           *)
(***************************************************************************)
\* mutation: the band edges belong to the band nearer to zero
getSignalType_exclusiveEdges(s) ==
    IF s > 60 THEN [action |-> "STRONG BUY", color |-> "#00ff88", level |-> "strong"]
    ELSE IF s > 30 THEN [action |-> "BUY", color |-> "#ffdd00", level |-> "moderate"]
    ELSE IF s >= -30 THEN [action |-> "NEUTRAL", color |-> "#888888", level |-> "neutral"]
    ELSE IF s >= -60 THEN [action |-> "SELL", color |-> "#ff8800", level |-> "moderate"]
    ELSE [action |-> "STRONG SELL", color |-> "#ff3344", level |-> "strong"]

getSignalType(s) ==
    IF s >= 60 THEN [action |-> "STRONG BUY", color |-> "#00ff88", level |-> "strong"]
    ELSE IF s >= 30 THEN [action |-> "BUY", color |-> "#ffdd00", level |-> "moderate"]
    ELSE IF s > -30 THEN [action |-> "NEUTRAL", color |-> "#888888", level |-> "neutral"]
    ELSE IF s > -60 THEN [action |-> "SELL", color |-> "#ff8800", level |-> "moderate"]
    ELSE [action |-> "STRONG SELL", color |-> "#ff3344", level |-> "strong"]

(***************************************************************************)
(* fibonacciRetracement, from the swing points found by its scan loop      *)
(***************************************************************************)
\* fractions in thousandths
FIBS == <<0, 236, 382, 500, 618, 786, 1000>>
FIB_LABELS == <<"0%", "23.6%", "38.2%", "50%", "61.8%", "78.6%", "100%">>

fibonacciRetracement(swingHigh, swingLow, lastHigh, lastLow) ==
    LET range == swingHigh - swingLow
        \* recentClose > midpoint, both halves of a sum
        isUptrend == lastHigh + lastLow > swingHigh + swingLow
    IN [swingHigh |-> swingHigh,
        swingLow  |-> swingLow,
        isUptrend |-> isUptrend,
        levels    |-> [i \in 1..Len(FIBS) |->
                         [level |-> FIBS[i],
                          price |-> IF isUptrend
                                    THEN swingHigh - (range * FIBS[i]) \div 1000
                                    ELSE swingLow + (range * FIBS[i]) \div 1000,
                          label |-> FIB_LABELS[i]]]]

(***************************************************************************)
(* calculateTargets                                                        *)
(***************************************************************************)
\* Array.prototype.sort with comparator a.price - b.price (dir = 1) or
\* b.price - a.price (dir = -1); the sort is stable
RECURSIVE InsertSorted(_, _, _)
InsertSorted(x, seq, dir) ==
    IF seq = <<>> THEN <<x>>
    ELSE IF dir * (x.price - Head(seq).price) < 0 THEN <<x>> \o seq
    ELSE <<Head(seq)>> \o InsertSorted(x, Tail(seq), dir)

RECURSIVE SortByPrice(_, _)
SortByPrice(seq, dir) ==
    IF seq = <<>> THEN <<>>
    ELSE InsertSorted(seq[Len(seq)], SortByPrice(SubSeq(seq, 1, Len(seq) - 1), dir), dir)

\* (reward / risk).toFixed(2), as a number of hundredths
ToFixed2(reward, risk) == <<MathRound(100 * reward, risk)>>
NotAvailable == <<"N/A", "text">>

\* action.includes('BUY')
IsBuyAction(action) == action \in {"BUY", "STRONG BUY"}

\* mutation: the sell branch sorts ascending like the buy branch
TakeProfits_sortAscending(ind, price, atrVal, isBuy) ==
    LET Beyond(l) == IF isBuy THEN l.price > price ELSE l.price < price
        fibLevels == SortByPrice(SelectSeq(ind.fibonacci.levels, Beyond), 1)
        sgn == IF isBuy THEN 1 ELSE -1
        fromFib == (IF Len(fibLevels) >= 1
                    THEN <<[price |-> fibLevels[1].price, label |-> <<"TP1", fibLevels[1].label>>]>>
                    ELSE <<>>)
                   \o
                   (IF Len(fibLevels) >= 2
                    THEN <<[price |-> fibLevels[2].price, label |-> <<"TP2", fibLevels[2].label>>]>>
                    ELSE <<>>)
    IN IF Len(fromFib) = 0
       THEN <<[price |-> price + sgn * atrVal * 2, label |-> <<"TP1", "2x ATR">>],
              [price |-> price + sgn * atrVal * 3, label |-> <<"TP2", "3x ATR">>]>>
       ELSE fromFib

\* the first two qualifying Fibonacci levels, or the ATR pair when none qualifies
TakeProfits(ind, price, atrVal, isBuy) ==
    LET \* the .filter() predicate
        Beyond(l) == IF isBuy THEN l.price > price ELSE l.price < price
        fibLevels == SortByPrice(SelectSeq(ind.fibonacci.levels, Beyond),
                                 IF isBuy THEN 1 ELSE -1)
        sgn == IF isBuy THEN 1 ELSE -1
        fromFib == (IF Len(fibLevels) >= 1
                    THEN <<[price |-> fibLevels[1].price, label |-> <<"TP1", fibLevels[1].label>>]>>
                    ELSE <<>>)
                   \o
                   (IF Len(fibLevels) >= 2
                    THEN <<[price |-> fibLevels[2].price, label |-> <<"TP2", fibLevels[2].label>>]>>
                    ELSE <<>>)
    IN IF Len(fromFib) = 0
       THEN <<[price |-> price + sgn * atrVal * 2, label |-> <<"TP1", "2x ATR">>],
              [price |-> price + sgn * atrVal * 3, label |-> <<"TP2", "3x ATR">>]>>
       ELSE fromFib

\* mutation: the reward is measured to the last take-profit
RiskReward_lastTarget(entry, stopLoss, takeProfits) ==
    LET risk == Abs(entry - stopLoss)
        reward == IF Len(takeProfits) > 0
                  THEN Abs(takeProfits[Len(takeProfits)].price - entry) ELSE risk
    IN IF risk > 0 THEN ToFixed2(reward, risk) ELSE NotAvailable

RiskReward(entry, stopLoss, takeProfits) ==
    LET risk == Abs(entry - stopLoss)
        reward == IF Len(takeProfits) > 0 THEN Abs(takeProfits[1].price - entry) ELSE risk
    IN IF risk > 0 THEN ToFixed2(reward, risk) ELSE NotAvailable

\* mutation: only strong signals get targets
calculateTargets_strongOnly(ind, st) ==
    LET price == ind.price.current
        atrVal == JsOr(ind.atr.value, price \div 100)
        isBuy == IsBuyAction(st.action)
    IN IF st.level /= "strong"
       THEN [entry |-> Null, stopLoss |-> Null, takeProfits |-> <<>>, riskReward |-> Null]
       ELSE LET entry == price
                stopLoss == IF isBuy THEN price - (atrVal * 3) \div 2
                            ELSE price + (atrVal * 3) \div 2
                takeProfits == TakeProfits(ind, price, atrVal, isBuy)
            IN [entry       |-> Num(entry),
                stopLoss    |-> Num(stopLoss),
                takeProfits |-> takeProfits,
                riskReward  |-> RiskReward(entry, stopLoss, takeProfits)]

\* mutation: the fallback is taken only for a null ATR (?? instead of ||)
calculateTargets_nullishAtr(ind, st) ==
    LET price == ind.price.current
        atrVal == IF IsNull(ind.atr.value) THEN price \div 100 ELSE Val(ind.atr.value)
        isBuy == IsBuyAction(st.action)
    IN IF st.level = "neutral"
       THEN [entry |-> Null, stopLoss |-> Null, takeProfits |-> <<>>, riskReward |-> Null]
       ELSE LET entry == price
                stopLoss == IF isBuy THEN price - (atrVal * 3) \div 2
                            ELSE price + (atrVal * 3) \div 2
                takeProfits == TakeProfits(ind, price, atrVal, isBuy)
            IN [entry       |-> Num(entry),
                stopLoss    |-> Num(stopLoss),
                takeProfits |-> takeProfits,
                riskReward  |-> RiskReward(entry, stopLoss, takeProfits)]

calculateTargets(ind, st) ==
    LET price == ind.price.current
        \* indicators.atr.value || price * 0.01
        atrVal == JsOr(ind.atr.value, price \div 100)
        isBuy == IsBuyAction(st.action)
    IN IF st.level = "neutral"
       THEN [entry |-> Null, stopLoss |-> Null, takeProfits |-> <<>>, riskReward |-> Null]
       ELSE LET entry == price
                stopLoss == IF isBuy THEN price - (atrVal * 3) \div 2
                            ELSE price + (atrVal * 3) \div 2
                takeProfits == TakeProfits(ind, price, atrVal, isBuy)
            IN [entry       |-> Num(entry),
                stopLoss    |-> Num(stopLoss),
                takeProfits |-> takeProfits,
                riskReward  |-> RiskReward(entry, stopLoss, takeProfits)]

(***************************************************************************)
(* buildTradePlan                                                          *)
(***************************************************************************)
TIMEFRAME_INFO ==
    [x \in {"5m", "15m", "1h", "4h"} |->
        CASE x = "5m"  -> [label |-> "5 min", candlesLabel |-> "1-3 candles",
                           candleMinutes |-> 5, swingCandles |-> 3]
          [] x = "15m" -> [label |-> "15 min", candlesLabel |-> "2-4 candles",
                           candleMinutes |-> 15, swingCandles |-> 4]
          [] x = "1h"  -> [label |-> "1 hour", candlesLabel |-> "2-6 candles",
                           candleMinutes |-> 60, swingCandles |-> 4]
          [] x = "4h"  -> [label |-> "4 hour", candlesLabel |-> "2-4 candles",
                           candleMinutes |-> 240, swingCandles |-> 3]]

\* TIMEFRAME_INFO[timeframe] || TIMEFRAME_INFO['15m']
TimeframeInfo(tf) ==
    IF tf \in DOMAIN TIMEFRAME_INFO THEN TIMEFRAME_INFO[tf] ELSE TIMEFRAME_INFO["15m"]

\* mutation: the hour band also takes what belongs to the minute band
HoldTime_hoursFirst(holdMinutes) ==
    IF holdMinutes < 1440 THEN [tenths |-> MathRound(holdMinutes * 10, 60), unit |-> "hrs"]
    ELSE [tenths |-> MathRound(holdMinutes * 10, 1440), unit |-> "days"]

\* the holdTime template string: `~N min`, `~N.N hrs` or `~N.N days`; the
\* printed number is kept as a count of tenths (toFixed(1) rounds to a tenth)
HoldTime(holdMinutes) ==
    IF holdMinutes < 60 THEN [tenths |-> holdMinutes * 10, unit |-> "min"]
    ELSE IF holdMinutes < 1440
         THEN [tenths |-> MathRound(holdMinutes * 10, 60), unit |-> "hrs"]
         ELSE [tenths |-> MathRound(holdMinutes * 10, 1440), unit |-> "days"]

\* atrVal * Math.sqrt(swingCandles), in ticks; sqrt(3) to three decimals
ExpectedMove(atrVal, swingCandles) ==
    IF swingCandles = 4 THEN atrVal * 2
    ELSE IF swingCandles = 3 THEN (atrVal * 1732) \div 1000
    ELSE atrVal

\* a number that is NaN or infinite (division by a zero price)
NotFinite == <<"NaN", "number">>

\* the reasons array before truncation: one push per true condition, in
\* source order
AllReasons(ind, isBuy) ==
    LET If(c, r) == IF c THEN <<r>> ELSE <<>>
    IN If(ind.rsi.isOversold, <<"RSI oversold">>)
       \o If(ind.rsi.isOverbought, <<"RSI overbought">>)
       \o If(ind.macd.isBullishCross, <<"MACD bullish cross">>)
       \o If(ind.macd.isBearishCross, <<"MACD bearish cross">>)
       \o If(ind.stochastic.isOversold, <<"Stochastic oversold">>)
       \o If(ind.stochastic.isOverbought, <<"Stochastic overbought">>)
       \o If(ind.ema.ema9AboveEma21, <<"EMA 9 > 21 (bullish)">>)
       \o If(~ind.ema.ema9AboveEma21 /\ ~IsNull(ind.ema.ema9), <<"EMA 9 < 21 (bearish)">>)
       \o If(ind.bollinger.isNearLower, <<"Near Bollinger lower band">>)
       \o If(ind.bollinger.isNearUpper, <<"Near Bollinger upper band">>)
       \o If(ind.adx.isStrong, <<"Strong trend (ADX", ind.adx.value>>)
       \o If(ind.vwap.priceAboveVwap /\ isBuy, <<"Price above VWAP">>)
       \o If(~ind.vwap.priceAboveVwap /\ ~isBuy, <<"Price below VWAP">>)
       \o If(ind.rsi.divergence.type /= "none", <<ind.rsi.divergence.type, "RSI divergence">>)
       \o If(ind.macd.divergence.type /= "none", <<ind.macd.divergence.type, "MACD divergence">>)

\* mutation: the five most recently pushed reasons are kept
TopReasons_lastFive(reasons) ==
    SubSeq(reasons, Max(1, Len(reasons) - 4), Len(reasons))

\* reasons.slice(0, 5)
TopReasons(reasons) == SubSeq(reasons, 1, Min(5, Len(reasons)))

buildTradePlan(ind, st, tgt, tf) ==
    LET price == ind.price.current
        atrVal == JsOr(ind.atr.value, price \div 100)
        tfInfo == TimeframeInfo(tf)
        isBuy == IsBuyAction(st.action)
    IN IF st.level = "neutral"
       THEN [action |-> "WAIT",
             summary |-> <<"No clear setup - wait for a stronger signal">>,
             entry |-> Null, exit |-> Null, stopLoss |-> Null, holdTime |-> Null,
             expectedMove |-> Null,
             support |-> ind.bollinger.lower,
             resistance |-> ind.bollinger.upper,
             riskAmount |-> Null, rewardAmount |-> Null]
       ELSE LET expectedMove == ExpectedMove(atrVal, tfInfo.swingCandles)
                holdMinutes == tfInfo.candleMinutes * tfInfo.swingCandles
                holdTime == HoldTime(holdMinutes)
                entry == tgt.entry
                exit == IF Len(tgt.takeProfits) > 0 THEN Num(tgt.takeProfits[1].price) ELSE Null
                stopLoss == tgt.stopLoss
                Truthy(x) == ~IsNull(x) /\ Val(x) /= 0
                riskAmount == IF Truthy(entry) /\ Truthy(stopLoss)
                              THEN Num(Abs(Val(entry) - Val(stopLoss))) ELSE Null
                rewardAmount == IF Truthy(entry) /\ Truthy(exit)
                                THEN Num(Abs(Val(exit) - Val(entry))) ELSE Null
                exitShown == IF Truthy(exit) THEN Val(exit)
                             ELSE IF isBuy THEN price + expectedMove ELSE price - expectedMove
                \* ((amount / entry) * 100).toFixed(3), in thousandths of a percent
                Percent3(amount) == IF Truthy(amount)
                                    THEN Num(MathRound(Val(amount) * 100000, Val(entry)))
                                    ELSE Null
            IN [action |-> IF isBuy THEN "BUY" ELSE "SELL",
                summary |-> IF isBuy THEN <<"BUY @", Val(entry), "SELL @", exitShown>>
                            ELSE <<"SELL @", Val(entry), "BUY BACK @", exitShown>>,
                entry |-> entry,
                exit |-> exit,
                stopLoss |-> stopLoss,
                holdTime |-> holdTime,
                holdLabel |-> <<"Hold", tfInfo.candlesLabel, holdTime>>,
                expectedMove |-> Num(expectedMove),
                \* (expectedMove / price) * 100, in hundredths of a percent
                expectedMovePercent |-> IF price = 0 THEN NotFinite
                                        ELSE Num((expectedMove * 10000) \div price),
                support |-> Num(JsOr(ind.bollinger.lower, price - atrVal * 2)),
                resistance |-> Num(JsOr(ind.bollinger.upper, price + atrVal * 2)),
                vwapZone |-> ind.vwap.value,
                riskAmount |-> riskAmount,
                rewardAmount |-> rewardAmount,
                profitPercent |-> Percent3(rewardAmount),
                lossPercent |-> Percent3(riskAmount),
                reasons |-> TopReasons(AllReasons(ind, isBuy)),
                timeframe |-> tf,
                timeframeLabel |-> tfInfo.label]

(***************************************************************************)
(* the breakdown built by generateSignal                                   *)
(***************************************************************************)
formatIndicatorName(key) ==
    CASE key = "rsi" -> "RSI (14)"
      [] key = "macdCross" -> "MACD Cross"
      [] key = "macdDivergence" -> "Divergence"
      [] key = "bollingerBands" -> "Bollinger Bands"
      [] key = "stochastic" -> "Stochastic"
      [] key = "emaCross" -> "EMA Cross (9/21)"
      [] key = "adxTrend" -> "ADX Trend"
      [] key = "volumeOBV" -> "Volume/OBV"
      [] OTHER -> key

\* Object.entries(signals).map(...): signal in thousandths, weight in points
Breakdown(sig) ==
    [i \in 1..Len(Keys) |->
        LET key == Keys[i]
            value == sig[key]
        IN [name |-> formatIndicatorName(key),
            signal |-> value,
            weight |-> WEIGHTS[key],
            contribution |-> MathRound(value * WEIGHTS[key], 1000),
            direction |-> IF value > 100 THEN "bullish"
                          ELSE IF value < -100 THEN "bearish" ELSE "neutral"]]

(***************************************************************************)
(* computeAll: packaging of the latest values.  The argument holds the     *)
(* last elements of the arrays computed by the indicator functions.        *)
(***************************************************************************)
\* macd(): histogram[i]
Histogram(line, signal) ==
    IF ~IsNull(line) /\ ~IsNull(signal) THEN Num(Val(line) - Val(signal)) ELSE Null

\* bollingerBands(): percentB[i], in hundredths; null before warm-up and
\* when the band width is not positive
PercentB(close, upper, lower) ==
    IF IsNull(upper) \/ IsNull(lower) THEN Null
    ELSE IF Val(upper) - Val(lower) > 0
         THEN Num(((close - Val(lower)) * 100) \div (Val(upper) - Val(lower)))
         ELSE Null

\* mutation: the bandwidth is set without the check of the band width
Bandwidth_noWidthCheck(upper, lower) ==
    IF IsNull(upper) \/ IsNull(lower) THEN Null
    ELSE IF Val(upper) + Val(lower) = 0 THEN NotFinite
    ELSE Num(((Val(upper) - Val(lower)) * 2000) \div (Val(upper) + Val(lower)))

\* bollingerBands(): bandwidth[i] = bandWidth / middle[i], in thousandths, the
\* middle band being half-way between the outer bands; set with percentB[i]
Bandwidth(upper, lower) ==
    IF IsNull(upper) \/ IsNull(lower) THEN Null
    ELSE IF Val(upper) - Val(lower) > 0
         THEN (IF Val(upper) + Val(lower) = 0 THEN NotFinite
               ELSE Num(((Val(upper) - Val(lower)) * 2000) \div (Val(upper) + Val(lower))))
         ELSE Null

computeAll(t) ==
    LET last == t.len - 1
        histogram == Histogram(t.macd.line, t.macd.signal)
        prevHistogram == IF last > 0 THEN Histogram(t.macd.prevLine, t.macd.prevSignal) ELSE Null
        percentB == PercentB(t.close, t.boll.upper, t.boll.lower)
    IN [price |-> [current |-> t.close],
        ema |-> [ema9 |-> t.ema.ema9,
                 ema21 |-> t.ema.ema21,
                 sma200 |-> t.ema.sma200,
                 ema9AboveEma21 |-> ~IsNull(t.ema.ema9) /\ ~IsNull(t.ema.ema21)
                                    /\ Val(t.ema.ema9) > Val(t.ema.ema21),
                 prevEma9AboveEma21 |-> last > 0 /\ ~IsNull(t.ema.prevEma9)
                                        /\ ~IsNull(t.ema.prevEma21)
                                        /\ Val(t.ema.prevEma9) > Val(t.ema.prevEma21),
                 priceAboveSma200 |-> ~IsNull(t.ema.sma200) /\ t.close > Val(t.ema.sma200)],
        rsi |-> [value |-> t.rsi,
                 isOverbought |-> ~IsNull(t.rsi) /\ Val(t.rsi) > 70,
                 isOversold |-> ~IsNull(t.rsi) /\ Val(t.rsi) < 30,
                 divergence |-> t.div.rsi],
        macd |-> [macdLine |-> t.macd.line,
                  signalLine |-> t.macd.signal,
                  histogram |-> histogram,
                  prevHistogram |-> prevHistogram,
                  isBullishCross |-> JsGT(t.macd.line, t.macd.signal)
                                     /\ (last > 0 /\ ~IsNull(t.macd.prevLine)
                                         /\ ~IsNull(t.macd.prevSignal)
                                         /\ Val(t.macd.prevLine) <= Val(t.macd.prevSignal)),
                  isBearishCross |-> JsLT(t.macd.line, t.macd.signal)
                                     /\ (last > 0 /\ ~IsNull(t.macd.prevLine)
                                         /\ ~IsNull(t.macd.prevSignal)
                                         /\ Val(t.macd.prevLine) >= Val(t.macd.prevSignal)),
                  divergence |-> t.div.macd],
        bollinger |-> [upper |-> t.boll.upper,
                       lower |-> t.boll.lower,
                       percentB |-> percentB,
                       bandwidth |-> Bandwidth(t.boll.upper, t.boll.lower),
                       isNearUpper |-> ~IsNull(percentB) /\ Val(percentB) > 80,
                       isNearLower |-> ~IsNull(percentB) /\ Val(percentB) < 20],
        stochastic |-> [k |-> t.stoch.k,
                        d |-> t.stoch.d,
                        isOverbought |-> ~IsNull(t.stoch.k) /\ Val(t.stoch.k) > 80,
                        isOversold |-> ~IsNull(t.stoch.k) /\ Val(t.stoch.k) < 20,
                        isBullishCross |-> JsGT(t.stoch.k, t.stoch.d)
                                           /\ (last > 0 /\ ~IsNull(t.stoch.prevK)
                                               /\ ~IsNull(t.stoch.prevD)
                                               /\ Val(t.stoch.prevK) <= Val(t.stoch.prevD)),
                        isBearishCross |-> JsLT(t.stoch.k, t.stoch.d)
                                           /\ (last > 0 /\ ~IsNull(t.stoch.prevK)
                                               /\ ~IsNull(t.stoch.prevD)
                                               /\ Val(t.stoch.prevK) >= Val(t.stoch.prevD))],
        adx |-> [value |-> t.adx.value,
                 isStrong |-> ~IsNull(t.adx.value) /\ Val(t.adx.value) > 25,
                 isBullish |-> ~IsNull(t.adx.plusDI) /\ ~IsNull(t.adx.minusDI)
                               /\ Val(t.adx.plusDI) > Val(t.adx.minusDI)],
        atr |-> [value |-> t.atr],
        vwap |-> [value |-> t.vol.vwap,
                  priceAboveVwap |-> JsGT(Num(t.close), t.vol.vwap)],
        obv |-> [value |-> t.vol.obv,
                 trend |-> IF t.len > 5
                           THEN (IF JsGT(t.vol.obv, t.vol.obvPrev5) THEN "rising" ELSE "falling")
                           ELSE "neutral"],
        fibonacci |-> fibonacciRetracement(t.fib.swingHigh, t.fib.swingLow,
                                           t.fib.lastHigh, t.fib.lastLow)]

\* the value of an array element that does not exist; its length tells it
\* from null, from a number and from a non-finite number
Undefined == <<"undefined", "undefined", "undefined">>

\* whether arr has an element at JavaScript index i
Has(arr, i) == i >= 0 /\ i < Len(arr)

\* arr[i], JavaScript index
At(arr, i) == IF Has(arr, i) THEN arr[i + 1] ELSE Undefined

(***************************************************************************)
(* The indicator functions on arrays.  A JavaScript array is a sequence;   *)
(* element i of the array is element i + 1 of the sequence.  Input arrays  *)
(* hold integers (ticks), result arrays hold nullable numbers.  A          *)
(* division keeps the whole part: prices, averages and MACD values in      *)
(* ticks, RSI, %K, %D, DI and ADX in whole percent.                        *)
(***************************************************************************)
\* new Array(n).fill(null)
Nulls(n) == [i \in 1..n |-> Null]

\* for (let i = from; i <= to; i++) state = Step(state, i): the state after
\* each iteration, the range being halved so that the evaluation stays
\* shallow
RECURSIVE Loop(_, _, _, _)
Loop(Step(_, _), from, to, init) ==
    IF from > to THEN <<>>
    ELSE IF from = to THEN <<Step(init, from)>>
    ELSE LET mid == (from + to) \div 2
             left == Loop(Step, from, mid, init)
         IN left \o Loop(Step, mid + 1, to, left[Len(left)])

\* data[from] + ... + data[to], JavaScript indices
RECURSIVE SumRange(_, _, _)
SumRange(data, from, to) ==
    IF from > to THEN 0
    ELSE IF from = to THEN data[to + 1]
    ELSE LET mid == (from + to) \div 2
         IN SumRange(data, from, mid) + SumRange(data, mid + 1, to)

\* Math.sqrt on a non-negative number, whole part
RECURSIVE SqrtFrom(_, _)
SqrtFrom(x, r) == IF (r + 1) * (r + 1) > x THEN r ELSE SqrtFrom(x, r + 1)

RECURSIVE SqrtBetween(_, _, _)
SqrtBetween(x, lo, hi) ==
    IF hi - lo <= 1 THEN SqrtFrom(x, lo)
    ELSE LET mid == (lo + hi) \div 2
         IN IF mid * mid <= x THEN SqrtBetween(x, mid, hi) ELSE SqrtBetween(x, lo, mid)

Sqrt(x) == SqrtBetween(x, 0, Min(x + 1, 46340))

\* array.filter(v => v !== null), as plain numbers
NonNull(arr) == LET Defined(v) == ~IsNull(v)
                    kept == SelectSeq(arr, Defined)
                IN [i \in 1..Len(kept) |-> Val(kept[i])]

\* the loops that map the values computed on the non-null elements of `arr`
\* back to the indices of those elements: idx counts the non-null elements
Realign(arr, values) ==
    LET idx == Loop(LAMBDA n, i : IF ~IsNull(arr[i + 1]) THEN n + 1 ELSE n,
                    0, Len(arr) - 1, 0)
    IN [i \in 1..Len(arr) |-> IF ~IsNull(arr[i]) THEN values[idx[i]] ELSE Null]

sma(data, period) ==
    [i \in 1..Len(data) |->
        IF i - 1 >= period - 1
        THEN Num(SumRange(data, (i - 1) - period + 1, i - 1) \div period)
        ELSE Null]

\* the running value of a smoothing loop is carried in hundredths of the
\* unit of the array it fills
SMOOTH_SCALE == 100

\* for (let i = period; i < data.length; i++) with alpha = 2 / (period + 1):
\* result[period], result[period + 1], ... from `seed`, which is
\* result[period - 1]
EmaLoop(data, period, seed) ==
    Loop(LAMBDA prev, i : (2 * data[i + 1] * SMOOTH_SCALE + (period - 1) * prev)
                          \div (period + 1),
         period, Len(data) - 1, seed)

ema(data, period) ==
    IF period - 1 < Len(data)
    THEN LET seed == (SumRange(data, 0, period - 1) * SMOOTH_SCALE) \div period
             rest == EmaLoop(data, period, seed)
         IN Nulls(period - 1) \o <<Num(seed \div SMOOTH_SCALE)>>
            \o [j \in 1..Len(rest) |-> Num(rest[j] \div SMOOTH_SCALE)]
    ELSE Nulls(Len(data))

\* the gains and losses arrays of rsi(): element i is the move into close i + 1
Gains(closes) ==
    [i \in 1..Len(closes) - 1 |->
        LET change == closes[i + 1] - closes[i] IN IF change > 0 THEN change ELSE 0]

Losses(closes) ==
    [i \in 1..Len(closes) - 1 |->
        LET change == closes[i + 1] - closes[i] IN IF change < 0 THEN Abs(change) ELSE 0]

\* avgGain and avgLoss are kept in thousandths of a tick
RSI_AVG_SCALE == 1000

\* the Wilder smoothing loop of rsi(): the averages behind
\* result[period + 1], result[period + 2], ...
RsiAverages(gains, losses, period, first) ==
    Loop(LAMBDA prev, i :
             [avgGain |-> (prev.avgGain * (period - 1) + gains[i + 1] * RSI_AVG_SCALE)
                          \div period,
              avgLoss |-> (prev.avgLoss * (period - 1) + losses[i + 1] * RSI_AVG_SCALE)
                          \div period],
         period, Len(gains) - 1, first)

\* the averages of every index from `period` on, for closes.length > period
rsiAverages(closes, period) ==
    LET gains == Gains(closes)
        losses == Losses(closes)
        first == [avgGain |-> (SumRange(gains, 0, period - 1) * RSI_AVG_SCALE) \div period,
                  avgLoss |-> (SumRange(losses, 0, period - 1) * RSI_AVG_SCALE) \div period]
    IN <<first>> \o RsiAverages(gains, losses, period, first)

\* mutation: the losses keep their sign (Math.abs left out), so that RS is
\* negative; RS = -1 gives 100 - Infinity, written as a large negative number
RsiValue_signedLoss(avgGain, avgLoss) ==
    IF avgLoss = 0 THEN 100
    ELSE IF avgGain = avgLoss THEN -1000000
         ELSE 100 - (100 * (-avgLoss)) \div (avgGain - avgLoss)

\* avgLoss === 0 ? 100 : 100 - 100 / (1 + avgGain / avgLoss), which is
\* 100 - 100 * avgLoss / (avgLoss + avgGain); in whole percent
RsiValue(avgGain, avgLoss) ==
    IF avgLoss = 0 THEN 100
    ELSE 100 - (100 * avgLoss) \div (avgLoss + avgGain)

rsi(closes, period) ==
    IF Len(closes) < period + 1 THEN Nulls(Len(closes))
    ELSE LET avgs == rsiAverages(closes, period)
         IN Nulls(period)
            \o [i \in 1..Len(avgs) |-> Num(RsiValue(avgs[i].avgGain, avgs[i].avgLoss))]

macd(closes, fastPeriod, slowPeriod, signalPeriod) ==
    LET emaFast == ema(closes, fastPeriod)
        emaSlow == ema(closes, slowPeriod)
        macdLine == [i \in 1..Len(closes) |->
                        IF ~IsNull(emaFast[i]) /\ ~IsNull(emaSlow[i])
                        THEN Num(Val(emaFast[i]) - Val(emaSlow[i])) ELSE Null]
        signalEma == ema(NonNull(macdLine), signalPeriod)
        signalLine == Realign(macdLine, signalEma)
    IN [macdLine |-> macdLine,
        signalLine |-> signalLine,
        histogram |-> [i \in 1..Len(closes) |-> Histogram(macdLine[i], signalLine[i])]]

\* upper[i] and lower[i]; %B and the bandwidth are derived from them in the
\* packaging step
bollingerBands(closes, period, multiplier) ==
    LET middle == sma(closes, period)
        StdDev(i) == LET Sq(j) == (closes[j] - Val(middle[i])) * (closes[j] - Val(middle[i]))
                         sumSq == SumRange([j \in 1..Len(closes) |-> Sq(j)], i - period, i - 1)
                     IN Sqrt(sumSq \div period)
    IN [upper |-> [i \in 1..Len(closes) |->
                      IF i - 1 >= period - 1
                      THEN Num(Val(middle[i]) + multiplier * StdDev(i)) ELSE Null],
        middle |-> middle,
        lower |-> [i \in 1..Len(closes) |->
                      IF i - 1 >= period - 1
                      THEN Num(Val(middle[i]) - multiplier * StdDev(i)) ELSE Null]]

\* the smallest and the largest of data[from..to], JavaScript indices
RECURSIVE Lowest(_, _, _)
Lowest(data, from, to) ==
    IF from = to THEN data[to + 1]
    ELSE LET mid == (from + to) \div 2
         IN Min(Lowest(data, from, mid), Lowest(data, mid + 1, to))

RECURSIVE Highest(_, _, _)
Highest(data, from, to) ==
    IF from = to THEN data[to + 1]
    ELSE LET mid == (from + to) \div 2
         IN Max(Highest(data, from, mid), Highest(data, mid + 1, to))

stochastic(highs, lows, closes, kPeriod, dPeriod) ==
    LET k == [i \in 1..Len(closes) |->
                 IF i - 1 >= kPeriod - 1
                 THEN LET lowestLow == Lowest(lows, i - kPeriod, i - 1)
                          highestHigh == Highest(highs, i - kPeriod, i - 1)
                          range == highestHigh - lowestLow
                      IN Num(IF range > 0
                             THEN ((closes[i] - lowestLow) * 100) \div range
                             ELSE 50)
                 ELSE Null]
        dSma == sma(NonNull(k), dPeriod)
    IN [k |-> k, d |-> Realign(k, dSma)]

\* Math.max(hl, hpc, lpc) for JavaScript index i >= 1
TrueRange(highs, lows, closes, i) ==
    Max(highs[i + 1] - lows[i + 1],
        Max(Abs(highs[i + 1] - closes[i]), Abs(lows[i + 1] - closes[i])))

\* for (let i = period; i < closes.length; i++), Wilder's smoothing:
\* result[period], ... from `seed`, which is result[period - 1]
AtrLoop(tr, period, seed) ==
    Loop(LAMBDA prev, i : (prev * (period - 1) + tr[i + 1] * SMOOTH_SCALE) \div period,
         period, Len(tr) - 1, seed)

atr(highs, lows, closes, period) ==
    IF Len(closes) < period + 1 THEN Nulls(Len(closes))
    ELSE LET tr == [i \in 1..Len(closes) |->
                       IF i = 1 THEN highs[1] - lows[1]
                       ELSE TrueRange(highs, lows, closes, i - 1)]
             seed == (SumRange(tr, 0, period - 1) * SMOOTH_SCALE) \div period
             rest == AtrLoop(tr, period, seed)
         IN Nulls(period - 1) \o <<Num(seed \div SMOOTH_SCALE)>>
            \o [j \in 1..Len(rest) |-> Num(rest[j] \div SMOOTH_SCALE)]

\* cumulativeTPV and cumulativeVolume after each iteration of the loop of
\* vwap(), the typical price in thirds of a tick
VwapLoop(highs, lows, closes, volumes) ==
    Loop(LAMBDA prev, i :
             [tpv |-> prev.tpv
                      + (highs[i + 1] + lows[i + 1] + closes[i + 1]) * volumes[i + 1],
              volume |-> prev.volume + volumes[i + 1]],
         0, Len(closes) - 1, [tpv |-> 0, volume |-> 0])

vwap(highs, lows, closes, volumes) ==
    LET sums == VwapLoop(highs, lows, closes, volumes)
    IN [i \in 1..Len(closes) |->
           Num(IF sums[i].volume > 0
               THEN sums[i].tpv \div (3 * sums[i].volume)
               ELSE (highs[i] + lows[i] + closes[i]) \div 3)]

\* for (let i = 1; i < closes.length; i++): result[1], result[2], ...
ObvLoop(closes, volumes) ==
    Loop(LAMBDA prev, i : IF closes[i + 1] > closes[i] THEN prev + volumes[i + 1]
                          ELSE IF closes[i + 1] < closes[i] THEN prev - volumes[i + 1]
                          ELSE prev,
         1, Len(closes) - 1, volumes[1])

\* result[0] = volumes[0] also runs on an empty array
obv(closes, volumes) ==
    IF Len(volumes) > 0
    THEN LET rest == ObvLoop(closes, volumes)
         IN <<Num(volumes[1])>> \o [j \in 1..Len(rest) |-> Num(rest[j])]
    ELSE <<Undefined>>

\* the scan loop of fibonacciRetracement over the last `lookback` candles
SwingPoints(highs, lows, lookback) ==
    LET start == Max(0, Len(highs) - lookback)
    IN [swingHigh |-> Highest(highs, start, Len(highs) - 1),
        swingLow |-> Lowest(lows, start, Len(highs) - 1),
        lastHigh |-> highs[Len(highs)],
        lastLow |-> lows[Len(lows)]]

\* the main loop of adx(): for (let i = period; i < tr.length; i++);
\* smoothTR, smoothPlusDM and smoothMinusDM after each iteration, the first
\* of which takes the initial sums as they are
AdxLoop(tr, plusDM, minusDM, period, sums) ==
    Loop(LAMBDA sm, i :
             IF i = period THEN sm
             ELSE [tr |-> sm.tr - sm.tr \div period + tr[i + 1] * SMOOTH_SCALE,
                   plus |-> sm.plus - sm.plus \div period + plusDM[i + 1] * SMOOTH_SCALE,
                   minus |-> sm.minus - sm.minus \div period
                             + minusDM[i + 1] * SMOOTH_SCALE],
         period, Len(tr) - 1, sums)

\* pdi, mdi and dx.push(...) of one iteration; diSum = pdi + mdi, and
\* |pdi - mdi| / diSum is taken on the smoothed sums
AdxRow(sm) ==
    LET pdi == IF sm.tr > 0 THEN (sm.plus * 100) \div sm.tr ELSE 0
        mdi == IF sm.tr > 0 THEN (sm.minus * 100) \div sm.tr ELSE 0
        diSum == IF sm.tr > 0 THEN sm.plus + sm.minus ELSE 0
    IN [pdi |-> pdi,
        mdi |-> mdi,
        dx |-> IF diSum > 0 THEN (Abs(sm.plus - sm.minus) * 100) \div diSum ELSE 0]

\* for (let i = period; i < dx.length; i++), Wilder's smoothing of DX from
\* `seed`, the first ADX
AdxSmooth(dx, period, seed) ==
    Loop(LAMBDA prev, i : (prev * (period - 1) + dx[i + 1] * SMOOTH_SCALE) \div period,
         period, Len(dx) - 1, seed)

\* mutation: the first ADX is written at 2 * period - 1
adx_earlyStart(highs, lows, closes, period) ==
    LET len == Len(closes)
    IN IF len < period * 2 + 1
       THEN [adx |-> Nulls(len), plusDI |-> Nulls(len), minusDI |-> Nulls(len)]
       ELSE LET tr == [j \in 1..len - 1 |-> TrueRange(highs, lows, closes, j)]
                upMove(j) == highs[j + 1] - highs[j]
                downMove(j) == lows[j] - lows[j + 1]
                plusDM == [j \in 1..len - 1 |->
                              IF upMove(j) > downMove(j) /\ upMove(j) > 0
                              THEN upMove(j) ELSE 0]
                minusDM == [j \in 1..len - 1 |->
                               IF downMove(j) > upMove(j) /\ downMove(j) > 0
                               THEN downMove(j) ELSE 0]
                sums == AdxLoop(tr, plusDM, minusDM, period,
                                [tr |-> SumRange(tr, 0, period - 1) * SMOOTH_SCALE,
                                 plus |-> SumRange(plusDM, 0, period - 1) * SMOOTH_SCALE,
                                 minus |-> SumRange(minusDM, 0, period - 1) * SMOOTH_SCALE])
                rows == [j \in 1..Len(sums) |-> AdxRow(sums[j])]
                dx == [j \in 1..Len(rows) |-> rows[j].dx]
                seed == (SumRange(dx, 0, period - 1) * SMOOTH_SCALE) \div period
                rest == AdxSmooth(dx, period, seed)
            IN [adx |-> Nulls(period * 2 - 1) \o <<Num(seed \div SMOOTH_SCALE)>>
                        \o [j \in 1..Len(rest) |-> Num(rest[j] \div SMOOTH_SCALE)],
                plusDI |-> Nulls(period + 1) \o [j \in 1..Len(rows) |-> Num(rows[j].pdi)],
                minusDI |-> Nulls(period + 1) \o [j \in 1..Len(rows) |-> Num(rows[j].mdi)]]

adx(highs, lows, closes, period) ==
    LET len == Len(closes)
    IN IF len < period * 2 + 1
       THEN [adx |-> Nulls(len), plusDI |-> Nulls(len), minusDI |-> Nulls(len)]
       ELSE LET tr == [j \in 1..len - 1 |-> TrueRange(highs, lows, closes, j)]
                upMove(j) == highs[j + 1] - highs[j]
                downMove(j) == lows[j] - lows[j + 1]
                plusDM == [j \in 1..len - 1 |->
                              IF upMove(j) > downMove(j) /\ upMove(j) > 0
                              THEN upMove(j) ELSE 0]
                minusDM == [j \in 1..len - 1 |->
                               IF downMove(j) > upMove(j) /\ downMove(j) > 0
                               THEN downMove(j) ELSE 0]
                sums == AdxLoop(tr, plusDM, minusDM, period,
                                [tr |-> SumRange(tr, 0, period - 1) * SMOOTH_SCALE,
                                 plus |-> SumRange(plusDM, 0, period - 1) * SMOOTH_SCALE,
                                 minus |-> SumRange(minusDM, 0, period - 1) * SMOOTH_SCALE])
                rows == [j \in 1..Len(sums) |-> AdxRow(sums[j])]
                dx == [j \in 1..Len(rows) |-> rows[j].dx]
                seed == (SumRange(dx, 0, period - 1) * SMOOTH_SCALE) \div period
                rest == AdxSmooth(dx, period, seed)
            IN [adx |-> Nulls(period * 2) \o <<Num(seed \div SMOOTH_SCALE)>>
                        \o [j \in 1..Len(rest) |-> Num(rest[j] \div SMOOTH_SCALE)],
                plusDI |-> Nulls(period + 1) \o [j \in 1..Len(rows) |-> Num(rows[j].pdi)],
                minusDI |-> Nulls(period + 1) \o [j \in 1..Len(rows) |-> Num(rows[j].mdi)]]

\* the pivots found by the scan loop of the divergence detectors: the
\* JavaScript indices start + 1 .. len - 2 that carry an oscillator value
\* and are a local minimum (kind "low") or maximum (kind "high") of the closes
Pivots(closes, osc, lookback, kind) ==
    LET len == Len(closes)
        start == len - lookback
        window == [j \in 1..(len - 2 - start) |-> start + j]
        IsPivot(i) ==
            /\ ~IsNull(osc[i + 1])
            /\ IF kind = "low"
               THEN closes[i + 1] < closes[i] /\ closes[i + 1] <= closes[i + 2]
               ELSE closes[i + 1] > closes[i] /\ closes[i + 1] >= closes[i + 2]
        found == SelectSeq(window, IsPivot)
    IN [j \in 1..Len(found) |->
           [idx |-> found[j], price |-> closes[found[j] + 1], osc |-> Val(osc[found[j] + 1])]]

\* mutation: the first and the last pivot of the window are compared
Divergence_firstAndLast(closes, osc, lookback, factor) ==
    IF Len(closes) < lookback THEN [type |-> "none", strength |-> 0]
    ELSE LET priceLows == Pivots(closes, osc, lookback, "low")
             priceHighs == Pivots(closes, osc, lookback, "high")
             Strength(prev, curr) == Min(100, Abs(curr.osc - prev.osc) * factor)
         IN IF Len(priceLows) >= 2
               /\ priceLows[Len(priceLows)].price < priceLows[1].price
               /\ priceLows[Len(priceLows)].osc > priceLows[1].osc
            THEN [type |-> "bullish",
                  strength |-> Strength(priceLows[1], priceLows[Len(priceLows)])]
            ELSE IF Len(priceHighs) >= 2
                    /\ priceHighs[Len(priceHighs)].price > priceHighs[1].price
                    /\ priceHighs[Len(priceHighs)].osc < priceHighs[1].osc
                 THEN [type |-> "bearish",
                       strength |-> Strength(priceHighs[1], priceHighs[Len(priceHighs)])]
                 ELSE [type |-> "none", strength |-> 0]

\* the body shared by detectRSIDivergence (factor 3) and detectMACDDivergence
\* (factor 50)
Divergence(closes, osc, lookback, factor) ==
    IF Len(closes) < lookback THEN [type |-> "none", strength |-> 0]
    ELSE LET priceLows == Pivots(closes, osc, lookback, "low")
             priceHighs == Pivots(closes, osc, lookback, "high")
             Strength(prev, curr) == Min(100, Abs(curr.osc - prev.osc) * factor)
         IN IF Len(priceLows) >= 2
               /\ priceLows[Len(priceLows)].price < priceLows[Len(priceLows) - 1].price
               /\ priceLows[Len(priceLows)].osc > priceLows[Len(priceLows) - 1].osc
            THEN [type |-> "bullish",
                  strength |-> Strength(priceLows[Len(priceLows) - 1],
                                        priceLows[Len(priceLows)])]
            ELSE IF Len(priceHighs) >= 2
                    /\ priceHighs[Len(priceHighs)].price
                       > priceHighs[Len(priceHighs) - 1].price
                    /\ priceHighs[Len(priceHighs)].osc < priceHighs[Len(priceHighs) - 1].osc
                 THEN [type |-> "bearish",
                       strength |-> Strength(priceHighs[Len(priceHighs) - 1],
                                             priceHighs[Len(priceHighs)])]
                 ELSE [type |-> "none", strength |-> 0]

detectRSIDivergence(closes, rsiValues, lookback) == Divergence(closes, rsiValues, lookback, 3)

detectMACDDivergence(closes, histogram, lookback) == Divergence(closes, histogram, lookback, 50)

(***************************************************************************)
(* computeAll on a candle array                                            *)
(***************************************************************************)
\* the arrays computed by computeAll and their elements at `last`,
\* `last - 1` and `last - 5`
Tails(candles_) ==
    LET closes == [i \in 1..Len(candles_) |-> candles_[i].close]
        highs == [i \in 1..Len(candles_) |-> candles_[i].high]
        lows == [i \in 1..Len(candles_) |-> candles_[i].low]
        volumes == [i \in 1..Len(candles_) |-> candles_[i].volume]
        len == Len(candles_)
        last == len - 1
        ema9 == ema(closes, 9)
        ema21 == ema(closes, 21)
        sma200 == sma(closes, 200)
        rsiValues == rsi(closes, 14)
        macdResult == macd(closes, 12, 26, 9)
        bbResult == bollingerBands(closes, 20, 2)
        stochResult == stochastic(highs, lows, closes, 14, 3)
        adxResult == adx(highs, lows, closes, 14)
        atrValues == atr(highs, lows, closes, 14)
        vwapValues == vwap(highs, lows, closes, volumes)
        obvValues == obv(closes, volumes)
    IN [len   |-> len,
        close |-> At(closes, last),
        rsi   |-> At(rsiValues, last),
        div   |-> [rsi |-> detectRSIDivergence(closes, rsiValues, 30),
                   macd |-> detectMACDDivergence(closes, macdResult.histogram, 30)],
        macd  |-> [line |-> At(macdResult.macdLine, last),
                   signal |-> At(macdResult.signalLine, last),
                   prevLine |-> At(macdResult.macdLine, last - 1),
                   prevSignal |-> At(macdResult.signalLine, last - 1)],
        boll  |-> [upper |-> At(bbResult.upper, last), lower |-> At(bbResult.lower, last)],
        stoch |-> [k |-> At(stochResult.k, last),
                   d |-> At(stochResult.d, last),
                   prevK |-> At(stochResult.k, last - 1),
                   prevD |-> At(stochResult.d, last - 1)],
        ema   |-> [ema9 |-> At(ema9, last),
                   ema21 |-> At(ema21, last),
                   prevEma9 |-> At(ema9, last - 1),
                   prevEma21 |-> At(ema21, last - 1),
                   sma200 |-> At(sma200, last)],
        adx   |-> [value |-> At(adxResult.adx, last),
                   plusDI |-> At(adxResult.plusDI, last),
                   minusDI |-> At(adxResult.minusDI, last)],
        atr   |-> At(atrValues, last),
        vol   |-> [vwap |-> At(vwapValues, last),
                   obv |-> At(obvValues, last),
                   obvPrev5 |-> At(obvValues, last - 5)],
        fib   |-> SwingPoints(highs, lows, Min(100, len))]

\* mutation: the candle before the last is read as well, without a guard
OpenOfLast_needsTwo(candles_) ==
    IF Has(candles_, Len(candles_) - 2) THEN Null
    ELSE <<"TypeError", "Cannot read properties of undefined (reading 'open')">>

\* the exception raised by candles[last].open when candles[last] does not
\* exist, or null
OpenOfLast(candles_) ==
    IF Has(candles_, Len(candles_) - 1) THEN Null
    ELSE <<"TypeError", "Cannot read properties of undefined (reading 'open')">>

(***************************************************************************)
(* Inputs: the tails of the indicator arrays for a series of `len` candles.*)
(* A value is null exactly when `len` is below the warm-up of its          *)
(* indicator function.  Each family is sampled in one of four modes:       *)
(* "detail" (a value in every band and on every band edge), "corner"       *)
(* (strongest bullish, strongest bearish, neutral), "bull" and "bear".     *)
(***************************************************************************)
RSI_PERIOD == 14
MACD_SLOW == 26
MACD_SIGNAL == 9
BB_PERIOD == 20
STOCH_K == 14
STOCH_D == 3
EMA_FAST == 9
EMA_SLOW == 21
SMA_LONG == 200
ADX_PERIOD == 14
ATR_PERIOD == 14
DIV_LOOKBACK == 30
OBV_TREND_BARS == 5

\* first length at which two pivots of the same kind carry a histogram value
MacdDivergenceMinLen == MACD_SLOW + MACD_SIGNAL - 1 + 3

Lens == {1, 6, 9, 14, 16, 17, 21, 22, 26, 29, 30, 34, 35, 37, 200}

Modes == {"corner", "detail", "bull", "bear"}

Pick(m, detail, corner, bull, bear) ==
    IF m = "detail" THEN detail
    ELSE IF m = "corner" THEN corner
    ELSE IF m = "bull" THEN bull
    ELSE bear

\* rsi(): result[i] is null for i < period
RsiTails(len, m) ==
    IF len < RSI_PERIOD + 1 THEN {Null}
    ELSE {Num(v) : v \in Pick(m, {0, 19, 20, 29, 30, 39, 40, 50, 60, 61, 70, 71, 80, 81, 100},
                                 {19, 50, 81}, {19}, {81})}

\* detectRSIDivergence / detectMACDDivergence return values
NoDivergence == [type |-> "none", strength |-> 0]
Divergences(types, strengths) ==
    {[type |-> ty, strength |-> st] : ty \in types, st \in strengths}

DivergenceResults(m) ==
    Pick(m, {NoDivergence} \cup Divergences({"bullish", "bearish"}, {1, 50, 100}),
            {NoDivergence} \cup Divergences({"bullish", "bearish"}, {100}),
            Divergences({"bullish"}, {100}),
            Divergences({"bearish"}, {100}))

DivTails(len, m) ==
    [rsi  : IF len < DIV_LOOKBACK THEN {NoDivergence} ELSE DivergenceResults(m),
     macd : IF len < MacdDivergenceMinLen THEN {NoDivergence} ELSE DivergenceResults(m)]

\* macd(): macdLine from index 25, signalLine and histogram from index 33
MacdPairs(m) ==
    Pick(m, (-2..2) \X (-2..2), {<<1, -1>>, <<-1, 1>>, <<0, 0>>},
            {<<1, -1>>}, {<<-1, 1>>})

MacdTails(len, m) ==
    IF len < MACD_SLOW
    THEN {[line |-> Null, signal |-> Null, prevLine |-> Null, prevSignal |-> Null]}
    ELSE IF len < MACD_SLOW + MACD_SIGNAL - 1
    THEN {[line |-> Num(1), signal |-> Null,
           prevLine |-> IF len > MACD_SLOW THEN Num(1) ELSE Null, prevSignal |-> Null]}
    ELSE {[line |-> Num(p[1]), signal |-> Num(0), prevLine |-> Num(p[2]),
           prevSignal |-> IF len > MACD_SLOW + MACD_SIGNAL - 1 THEN Num(0) ELSE Null]
          : p \in MacdPairs(m)}

\* bollingerBands(): bands from index 19; lower = close - pb and width 100
\* give %B = pb / 100; a flat window has upper = lower
BollTails(len, m, c) ==
    IF len < BB_PERIOD THEN {[upper |-> Null, lower |-> Null]}
    ELSE {[upper |-> Num(c - pb + 100), lower |-> Num(c - pb)]
          : pb \in Pick(m, {-1, 0, 4, 5, 19, 20, 50, 80, 81, 95, 96, 100, 101},
                           {-1, 50, 101}, {-1}, {101})}
         \cup (IF m = "detail" THEN {[upper |-> Num(c), lower |-> Num(c)]} ELSE {})

\* stochastic(): %K from index 13, %D from index 15
\* a triple is <<k, k - d, prevK - prevD>>
StochTriples(m) ==
    Pick(m, {10, 20, 50, 80, 90} \X {-5, 0, 5} \X {-5, 0, 5},
            {<<10, 5, -5>>, <<90, -5, 5>>, <<50, 0, 0>>},
            {<<10, 5, -5>>}, {<<90, -5, 5>>})

StochTails(len, m) ==
    IF len < STOCH_K
    THEN {[k |-> Null, d |-> Null, prevK |-> Null, prevD |-> Null]}
    ELSE {[k |-> Num(s[1]),
           d |-> IF len >= STOCH_K + STOCH_D - 1 THEN Num(s[1] - s[2]) ELSE Null,
           prevK |-> IF len > STOCH_K THEN Num(50) ELSE Null,
           prevD |-> IF len > STOCH_K + STOCH_D - 1 THEN Num(50 - s[3]) ELSE Null]
          : s \in StochTriples(m)}

\* ema(): defined from index period - 1; sma(closes, 200) from index 199
\* a triple is <<ema9 - ema21, prevEma9 - prevEma21, close - sma200>>
EmaTriples(m) ==
    Pick(m, {-1, 0, 1} \X {-1, 0, 1} \X {-1, 0, 1},
            {<<1, -1, 1>>, <<-1, 1, -1>>, <<1, 1, -1>>},
            {<<1, -1, 1>>}, {<<-1, 1, -1>>})

EmaTails(len, m, c) ==
    IF len < EMA_FAST
    THEN {[ema9 |-> Null, ema21 |-> Null, prevEma9 |-> Null, prevEma21 |-> Null,
           sma200 |-> Null]}
    ELSE {[ema9 |-> Num(c + e[1]),
           ema21 |-> IF len >= EMA_SLOW THEN Num(c) ELSE Null,
           prevEma9 |-> IF len > EMA_FAST THEN Num(c + e[2]) ELSE Null,
           prevEma21 |-> IF len > EMA_SLOW THEN Num(c) ELSE Null,
           sma200 |-> IF len >= SMA_LONG THEN Num(c - e[3]) ELSE Null]
          : e \in EmaTriples(m)}

\* adx(): everything null below 2 * period + 1 bars
AdxTails(len, m) ==
    IF len < 2 * ADX_PERIOD + 1
    THEN {[value |-> Null, plusDI |-> Null, minusDI |-> Null]}
    ELSE Pick(m, [value : {Num(20), Num(25), Num(26), Num(50)},
                  plusDI : {Num(10), Num(30)}, minusDI : {Num(10), Num(30)}],
                 {[value |-> Num(50), plusDI |-> Num(30), minusDI |-> Num(10)],
                  [value |-> Num(50), plusDI |-> Num(10), minusDI |-> Num(30)],
                  [value |-> Num(20), plusDI |-> Num(30), minusDI |-> Num(10)]},
                 {[value |-> Num(50), plusDI |-> Num(30), minusDI |-> Num(10)]},
                 {[value |-> Num(50), plusDI |-> Num(10), minusDI |-> Num(30)]})

\* atr(): null below period + 1 bars
AtrTails(len, values) ==
    IF len < ATR_PERIOD + 1 THEN {Null} ELSE {Num(v) : v \in values}

\* vwap() and obv() are defined from index 0; obv[last - 5] exists for len > 5
\* a pair is <<obv[last] - obv[last - 5], close - vwap>>
VolPairs(m) ==
    Pick(m, {-1, 0, 1} \X {-1, 0, 1},
            {<<1, 1>>, <<-1, -1>>, <<1, -1>>, <<-1, 1>>},
            {<<1, 1>>}, {<<-1, -1>>})

VolTails(len, m, c) ==
    {[vwap |-> Num(c - v[2]), obv |-> Num(100 + v[1]),
      obvPrev5 |-> IF len > OBV_TREND_BARS THEN Num(100) ELSE Null]
     : v \in VolPairs(m)}

\* swing points of the lookback window, which always contains the last bar:
\* swingLow <= low[last] <= close <= high[last] <= swingHigh
FibTails(c, steps) ==
    {f \in [swingHigh : {c + d : d \in steps}, swingLow : {c - d : d \in steps},
            lastHigh : {c + d : d \in steps}, lastLow : {c - d : d \in steps}]
       : f.swingLow >= 0 /\ f.swingLow <= f.lastLow /\ f.lastHigh <= f.swingHigh}

Families == {"rsi", "div", "macd", "boll", "stoch", "ema", "adx", "vol"}

\* tails in which family `focus` is sampled in mode "detail" and every other
\* family in mode `rest`; focus = "none" samples every family in mode `rest`
TailsAt(len, c, focus, rest, atrValues, fibSteps) ==
    LET M(f) == IF f = focus THEN "detail" ELSE rest
    IN [len   : {len},
        close : {c},
        rsi   : RsiTails(len, M("rsi")),
        div   : DivTails(len, M("div")),
        macd  : MacdTails(len, M("macd")),
        boll  : BollTails(len, M("boll"), c),
        stoch : StochTails(len, M("stoch")),
        ema   : EmaTails(len, M("ema"), c),
        adx   : AdxTails(len, M("adx")),
        atr   : AtrTails(len, atrValues),
        vol   : VolTails(len, M("vol"), c),
        fib   : FibTails(c, fibSteps)]

\* every family at a corner, jointly; and each family in detail against an
\* all-bullish and an all-bearish background
SignalTails ==
    UNION {TailsAt(len, 2000, "none", "corner", {20}, {1000}) : len \in Lens}
    \cup UNION {TailsAt(len, 2000, f, r, {20}, {1000})
                : len \in Lens, f \in Families, r \in {"bull", "bear"}}

\* price, ATR and swing points in detail
TargetTails ==
    UNION {TailsAt(len, c, "none", "bull", {0, 20, 2000}, {0, 1000, 2000})
           : len \in {14, 200}, c \in {0, 2000, 4000}}

(***************************************************************************)
(* generateSignal                                                          *)
(***************************************************************************)
InitHistory ==
    /\ signalHistory = <<>>
    /\ recorded = <<>>
    /\ offered = Null
    /\ changed = Null
    /\ prevHistory = <<>>
    /\ now = 0
    /\ richCalls = 0

\* the page is not loaded: no controller state, no invocation
InitNoApp ==
    /\ currentPair = Null
    /\ currentTimeframe = Null
    /\ isPredictionMode = FALSE
    /\ currentSignal = Null
    /\ refreshInterval = FALSE
    /\ calls = <<>>
    /\ running = 0
    /\ sectionLog = <<>>

\* no price stream has been created
InitNoStream ==
    /\ sockets = <<>>
    /\ reconnectTimer = "null"
    /\ isClosing = FALSE
    /\ onErrorCalls = 0
    /\ livePrice = Null

\* nothing computed yet, no candles fetched, no function called directly
InitIdle ==
    /\ tradePlan = Null
    /\ breakdown = Null
    /\ candles = Null
    /\ error = Null
    /\ args = Null
    /\ result = Null
    /\ InitHistory
    /\ InitNoApp
    /\ InitNoStream

InitSignal ==
    /\ pc = "snapshot"
    /\ indicators \in {computeAll(t) : t \in SignalTails}
    /\ timeframe = "15m"
    /\ signals = Null
    /\ score = Null
    /\ signalType = Null
    /\ targets = Null
    /\ InitIdle

GenerateSignal ==
    /\ pc = "snapshot"
    /\ LET sig == getIndicatorSignals(indicators)
           sc == calculateConfluenceScore(sig)
           st == getSignalType(sc)
       IN /\ signals' = sig
          /\ score' = sc
          /\ signalType' = st
          /\ targets' = calculateTargets(indicators, st)
          /\ tradePlan' = buildTradePlan(indicators, st, calculateTargets(indicators, st),
                                         timeframe)
          /\ breakdown' = Breakdown(sig)
    /\ pc' = "generated"
    /\ UNCHANGED <<indicators, inputVars, callVars, historyVars, appVars, streamVars>>

NextSignal == GenerateSignal

SpecSignal == InitSignal /\ [][NextSignal]_vars

(***************************************************************************)
(* generateSignal with every timeframe: the trade plan                     *)
(***************************************************************************)
\* the four keys of TIMEFRAME_INFO and one string that is not a key
Timeframes == {"5m", "15m", "1h", "4h", "1d"}

\* every family at a corner for a short and a long series under the default
\* timeframe, and the all-bullish and all-bearish snapshots of every length
\* under every timeframe
PlanInputs ==
    ((UNION {TailsAt(len, 2000, "none", "corner", {20}, {1000}) : len \in {16, 200}})
       \X {"15m"})
    \cup ((UNION {TailsAt(len, 2000, "none", r, {0, 20}, {1000})
                  : len \in Lens, r \in {"bull", "bear"}})
          \X Timeframes)

InitPlan ==
    /\ pc = "snapshot"
    /\ \E in \in PlanInputs : /\ indicators = computeAll(in[1])
                              /\ timeframe = in[2]
    /\ signals = Null
    /\ score = Null
    /\ signalType = Null
    /\ targets = Null
    /\ InitIdle

SpecPlan == InitPlan /\ [][NextSignal]_vars

(***************************************************************************)
(* computeAll and generateSignal on candle arrays                          *)
(***************************************************************************)
\* closes[i] of a series of the given shape, i counted from 0, in ticks
CloseAt(shape, base, step, i) ==
    CASE shape = "flat" -> base
      [] shape = "linear" -> base + step * i
      [] shape = "accelerating" -> base + (step * i * (i + 1)) \div 20
      [] shape = "decelerating" -> base + (step * i * (119 - i)) \div 20
      [] shape = "twoSpeed" -> base + step * i + (IF i > 30 THEN 4 * step * (i - 30) ELSE 0)
      [] shape = "falling" -> base - step * i
      [] shape = "zigzag" -> base + step * ((3 * i * i + 7 * i) % 11)

\* the distance of a high or a low from the candle's body
WickAt(kind, w, i) ==
    CASE kind = "none" -> 0
      [] kind = "constant" -> w
      [] kind = "growing" -> w * i
      [] kind = "shrinking" -> w * Max(0, 60 - i)

WickKinds == {"none", "constant", "growing", "shrinking"}

\* a candle array as fetchCandles returns it: { time, open, high, low, close, volume }
Series(n, shape, base, step, up, down, w, volStep) ==
    [k \in 1..n |->
        LET i == k - 1
            close == CloseAt(shape, base, step, i)
            open == IF i = 0 THEN close ELSE CloseAt(shape, base, step, i - 1)
        IN [open |-> open,
            high |-> Max(open, close) + WickAt(up, w, i),
            low |-> Min(open, close) - WickAt(down, w, i),
            close |-> close,
            volume |-> 10 + volStep * (i % 3)]]

BasePrice == 100000
MaxAnyLen == 40

\* 60 candles whose closes rise from each candle to the next, constant volume
RisingSeries ==
    {Series(60, shape, BasePrice, step, up, down, 5, 0) :
        shape \in {"linear", "accelerating", "decelerating", "twoSpeed"},
        step \in {20, 40}, up \in WickKinds, down \in WickKinds}

\* candles whose closes are all equal
FlatSeries ==
    {Series(n, "flat", BasePrice, 0, up, down, 5, volStep) :
        n \in {15, 20, 34, 60, 200}, up \in WickKinds, down \in WickKinds,
        volStep \in {0, 1}}

\* series of every length from one candle on
AnySeries ==
    {Series(n, shape, BasePrice, 20, "constant", "constant", 5, 1) :
        n \in (1..MaxAnyLen) \cup {60, 200, 201},
        shape \in {"flat", "linear", "falling", "zigzag"}}

CandleSeries == RisingSeries \cup FlatSeries \cup AnySeries \cup {<<>>}

InitCandles ==
    /\ pc = "fetched"
    /\ candles \in CandleSeries
    /\ timeframe = "15m"
    /\ indicators = Null
    /\ signals = Null
    /\ score = Null
    /\ signalType = Null
    /\ targets = Null
    /\ tradePlan = Null
    /\ breakdown = Null
    /\ error = Null
    /\ args = Null
    /\ result = Null
    /\ InitHistory
    /\ InitNoApp
    /\ InitNoStream

\* currentIndicators = computeAll(candles); the exception leaves it unassigned
ComputeAll ==
    /\ pc = "fetched"
    /\ IF IsNull(OpenOfLast(candles))
       THEN /\ indicators' = computeAll(Tails(candles))
            /\ pc' = "snapshot"
            /\ error' = error
       ELSE /\ error' = OpenOfLast(candles)
            /\ pc' = "failed"
            /\ indicators' = indicators
    /\ UNCHANGED <<signals, score, signalType, targets, tradePlan, breakdown,
                   candles, timeframe, callVars, historyVars, appVars, streamVars>>

NextCandles == ComputeAll \/ GenerateSignal

SpecCandles == InitCandles /\ [][NextCandles]_vars

(***************************************************************************)
(* getSignalType on every score of the documented range                    *)
(***************************************************************************)
InitType ==
    /\ pc = "score"
    /\ score \in -100..100
    /\ indicators = Null
    /\ timeframe = "15m"
    /\ signals = Null
    /\ signalType = Null
    /\ targets = Null
    /\ InitIdle

GetSignalType ==
    /\ pc = "score"
    /\ signalType' = getSignalType(score)
    /\ pc' = "typed"
    /\ UNCHANGED <<indicators, signals, score, targets, tradePlan, breakdown,
                   inputVars, callVars, historyVars, appVars, streamVars>>

NextType == GetSignalType

SpecType == InitType /\ [][NextType]_vars

(***************************************************************************)
(* calculateTargets on sampled prices, ATR values and swing points, for    *)
(* each of the five signal types                                           *)
(***************************************************************************)
SignalTypes == {getSignalType(s) : s \in {-60, -30, 0, 30, 60}}

InitTargets ==
    /\ pc = "inputs"
    /\ indicators \in {computeAll(t) : t \in TargetTails}
    /\ signalType \in SignalTypes
    /\ timeframe = "15m"
    /\ InitIdle
    /\ signals = Null
    /\ score = Null
    /\ targets = Null

CalculateTargets ==
    /\ pc = "inputs"
    /\ targets' = calculateTargets(indicators, signalType)
    /\ pc' = "targets"
    /\ UNCHANGED <<indicators, signals, score, signalType, tradePlan, breakdown,
                   inputVars, callVars, historyVars, appVars, streamVars>>

NextTargets == CalculateTargets

SpecTargets == InitTargets /\ [][NextTargets]_vars

(***************************************************************************)
(* recordSignal / getSignalHistory                                         *)
(***************************************************************************)
MAX_HISTORY == 20

\* the object literal pushed by recordSignal
HistoryEntry(signal) ==
    [action    |-> signal.action,
     score     |-> signal.score,
     price     |-> signal.targets.entry,
     timestamp |-> signal.timestamp,
     color     |-> signal.color]

\* mutation: nothing is evicted
recordSignal_noEviction(history, signal) ==
    LET hasLast == Len(history) > 0
    IN IF \/ ~hasLast
          \/ history[Len(history)].action /= signal.action
          \/ Abs(history[Len(history)].score - signal.score) >= 10
       THEN [history |-> Append(history, HistoryEntry(signal)), changed |-> TRUE]
       ELSE [history |-> history, changed |-> FALSE]

\* mutation: the score must move by more than 10
recordSignal_strictDelta(history, signal) ==
    LET hasLast == Len(history) > 0
    IN IF \/ ~hasLast
          \/ history[Len(history)].action /= signal.action
          \/ Abs(history[Len(history)].score - signal.score) > 10
       THEN LET pushed == Append(history, HistoryEntry(signal))
            IN [history |-> IF Len(pushed) > MAX_HISTORY THEN Tail(pushed) ELSE pushed,
                changed |-> TRUE]
       ELSE [history |-> history, changed |-> FALSE]

\* mutation: pop() instead of shift()
recordSignal_popNewest(history, signal) ==
    LET hasLast == Len(history) > 0
    IN IF \/ ~hasLast
          \/ history[Len(history)].action /= signal.action
          \/ Abs(history[Len(history)].score - signal.score) >= 10
       THEN LET pushed == Append(history, HistoryEntry(signal))
            IN [history |-> IF Len(pushed) > MAX_HISTORY
                            THEN SubSeq(pushed, 1, Len(pushed) - 1) ELSE pushed,
                changed |-> TRUE]
       ELSE [history |-> history, changed |-> FALSE]

\* mutation: a score change of 5 counts as significant
recordSignal_halfDelta(history, signal) ==
    LET hasLast == Len(history) > 0
    IN IF \/ ~hasLast
          \/ history[Len(history)].action /= signal.action
          \/ Abs(history[Len(history)].score - signal.score) >= 5
       THEN LET pushed == Append(history, HistoryEntry(signal))
            IN [history |-> IF Len(pushed) > MAX_HISTORY THEN Tail(pushed) ELSE pushed,
                changed |-> TRUE]
       ELSE [history |-> history, changed |-> FALSE]

\* returns the new array contents and the boolean result
recordSignal(history, signal) ==
    LET hasLast == Len(history) > 0
    IN IF \/ ~hasLast
          \/ history[Len(history)].action /= signal.action
          \/ Abs(history[Len(history)].score - signal.score) >= 10
       THEN LET pushed == Append(history, HistoryEntry(signal))
            IN [history |-> IF Len(pushed) > MAX_HISTORY THEN Tail(pushed) ELSE pushed,
                changed |-> TRUE]
       ELSE [history |-> history, changed |-> FALSE]

getSignalHistory == signalHistory

\* the part of a generateSignal result that recordSignal reads, for a snapshot
\* with all indicators defined, a given score and a given Date.now()
BaseSnapshot ==
    computeAll(CHOOSE t \in TailsAt(200, 2000, "none", "bull", {20}, {1000}) : TRUE)

SignalWithScore(s, ts) ==
    LET st == getSignalType(s)
    IN [score |-> s, action |-> st.action, color |-> st.color, level |-> st.level,
        targets |-> calculateTargets(BaseSnapshot, st), timestamp |-> ts]

\* Offers.  A run starts with any number (up to MaxWarm) of offers whose score
\* alternates across the BUY threshold, each of which is recorded; it goes on
\* with up to MaxRich offers of any score in Scores.
MaxWarm == 21
MaxRich == 4
Scores == {29, 30, 39, 40}
WarmScore(n) == IF n % 2 = 0 THEN 29 ELSE 30

InitRecord ==
    /\ pc = "history"
    /\ indicators = Null
    /\ signals = Null
    /\ score = Null
    /\ signalType = Null
    /\ targets = Null
    /\ timeframe = "15m"
    /\ InitIdle

RecordSignal(signal) ==
    LET r == recordSignal(signalHistory, signal)
    IN /\ signalHistory' = r.history
       /\ changed' = r.changed
       /\ recorded' = IF r.changed THEN Append(recorded, HistoryEntry(signal)) ELSE recorded
       /\ offered' = signal
       /\ prevHistory' = signalHistory
       /\ now' = now + 1
       /\ UNCHANGED <<pc, scoringVars, inputVars, callVars, appVars, streamVars>>

RecordAlternating ==
    /\ pc = "history"
    /\ richCalls = 0
    /\ now < MaxWarm
    /\ RecordSignal(SignalWithScore(WarmScore(now), now + 1))
    /\ UNCHANGED richCalls

RecordAny ==
    /\ pc = "history"
    /\ richCalls < MaxRich
    /\ richCalls' = richCalls + 1
    /\ \E s \in Scores : RecordSignal(SignalWithScore(s, now + 1))

NextRecord == RecordAlternating \/ RecordAny

SpecRecord == InitRecord /\ [][NextRecord]_vars

(***************************************************************************)
(* rsi called directly on a close series                                   *)
(***************************************************************************)
\* the longest of the exhaustively enumerated close series
MaxCloses == 5

\* every series of at most MaxCloses closes of 10, 11 or 13 ticks
ShortCloses == UNION {[1..n -> {10, 11, 13}] : n \in 0..MaxCloses}

\* close series around the warm-up of the default period
LongCloses ==
    {[i \in 1..n |-> CloseAt(shape, BasePrice, 20, i - 1)] :
        n \in RSI_PERIOD - 1..RSI_PERIOD + 6,
        shape \in {"flat", "linear", "falling", "zigzag"}}

InitRsi ==
    /\ pc = "call"
    /\ args \in {[closes |-> closes, period |-> period] :
                    closes \in ShortCloses, period \in {2, 3}}
               \cup {[closes |-> closes, period |-> RSI_PERIOD] : closes \in LongCloses}
    /\ result = Null
    /\ indicators = Null
    /\ signals = Null
    /\ score = Null
    /\ signalType = Null
    /\ targets = Null
    /\ timeframe = "15m"
    /\ tradePlan = Null
    /\ breakdown = Null
    /\ candles = Null
    /\ error = Null
    /\ InitHistory
    /\ InitNoApp
    /\ InitNoStream

Rsi ==
    /\ pc = "call"
    /\ result' = rsi(args.closes, args.period)
    /\ pc' = "returned"
    /\ UNCHANGED <<indicators, signals, score, signalType, targets, tradePlan,
                   breakdown, inputVars, args, historyVars, appVars, streamVars>>

NextRsi == Rsi

SpecRsi == InitRsi /\ [][NextRsi]_vars

(***************************************************************************)
(* The divergence detectors called directly                                *)
(***************************************************************************)
\* the longest close series and the largest lookback handed to the detectors
MaxLookback == 7

\* oscillator values along a series: rising, falling, a valley, a peak
OscAt(shape, i) ==
    CASE shape = "rising" -> 10 + 10 * i
      [] shape = "falling" -> 90 - 10 * i
      [] shape = "valley" -> 10 + 10 * Abs(i - 3)
      [] shape = "peak" -> 60 - 10 * Abs(i - 3)

\* an oscillator array as rsi() and macd() return it: nulls during the
\* warm-up, numbers from then on
Oscillator(n, shape, warmUp) ==
    [i \in 1..n |-> IF i <= warmUp THEN Null ELSE Num(OscAt(shape, i - 1))]

InitDivergence ==
    /\ pc = "call"
    /\ args \in {[closes |-> closes,
                  osc |-> Oscillator(Len(closes), shape, warmUp),
                  lookback |-> lookback] :
                    closes \in UNION {[1..n -> 1..3] : n \in MaxLookback - 1..MaxLookback},
                    shape \in {"rising", "falling", "valley", "peak"},
                    warmUp \in {0, 3},
                    lookback \in MaxLookback - 1..MaxLookback}
    /\ result = Null
    /\ indicators = Null
    /\ signals = Null
    /\ score = Null
    /\ signalType = Null
    /\ targets = Null
    /\ timeframe = "15m"
    /\ tradePlan = Null
    /\ breakdown = Null
    /\ candles = Null
    /\ error = Null
    /\ InitHistory
    /\ InitNoApp
    /\ InitNoStream

DetectRSIDivergence ==
    /\ pc = "call"
    /\ result' = detectRSIDivergence(args.closes, args.osc, args.lookback)
    /\ pc' = "rsiDivergence"
    /\ UNCHANGED <<indicators, signals, score, signalType, targets, tradePlan,
                   breakdown, inputVars, args, historyVars, appVars, streamVars>>

DetectMACDDivergence ==
    /\ pc = "call"
    /\ result' = detectMACDDivergence(args.closes, args.osc, args.lookback)
    /\ pc' = "macdDivergence"
    /\ UNCHANGED <<indicators, signals, score, signalType, targets, tradePlan,
                   breakdown, inputVars, args, historyVars, appVars, streamVars>>

NextDivergence == DetectRSIDivergence \/ DetectMACDDivergence

SpecDivergence == InitDivergence /\ [][NextDivergence]_vars

(***************************************************************************)
(* adx called directly                                                     *)
(***************************************************************************)
\* the longest candle series handed to adx with the periods 2 and 3
MaxAdxBars == 10

\* highs, lows and closes of a candle array, with a period
AdxArgs(series, period) ==
    [highs |-> [i \in 1..Len(series) |-> series[i].high],
     lows |-> [i \in 1..Len(series) |-> series[i].low],
     closes |-> [i \in 1..Len(series) |-> series[i].close],
     period |-> period]

InitAdx ==
    /\ pc = "call"
    /\ args \in {AdxArgs(Series(n, shape, BasePrice, 20, up, down, 5, 0), period) :
                    n \in 0..MaxAdxBars,
                    shape \in {"flat", "linear", "falling", "zigzag"},
                    up \in WickKinds, down \in WickKinds, period \in {2, 3}}
               \cup {AdxArgs(Series(n, shape, BasePrice, 20, "constant", "growing", 5, 0),
                             ADX_PERIOD) :
                         n \in 2 * ADX_PERIOD - 1..2 * ADX_PERIOD + 3,
                         shape \in {"flat", "linear", "falling", "zigzag"}}
    /\ result = Null
    /\ indicators = Null
    /\ signals = Null
    /\ score = Null
    /\ signalType = Null
    /\ targets = Null
    /\ timeframe = "15m"
    /\ tradePlan = Null
    /\ breakdown = Null
    /\ candles = Null
    /\ error = Null
    /\ InitHistory
    /\ InitNoApp
    /\ InitNoStream

Adx ==
    /\ pc = "call"
    /\ result' = adx(args.highs, args.lows, args.closes, args.period)
    /\ pc' = "returned"
    /\ UNCHANGED <<indicators, signals, score, signalType, targets, tradePlan,
                   breakdown, inputVars, args, historyVars, appVars, streamVars>>

NextAdx == Adx

SpecAdx == InitAdx /\ [][NextAdx]_vars

(***************************************************************************)
(* generateSignal in prediction mode on the 5-minute timeframe             *)
(***************************************************************************)
\* object.name: undefined when the object has no such property
Get(object, name) == IF name \in DOMAIN object THEN object[name] ELSE Undefined

\* 1 (UP) or -1 (DOWN).  A term read from a property the snapshot does not
\* have is undefined, arithmetic on it gives NaN, and every comparison with
\* NaN or undefined is false
getForcedPrediction(ind) ==
    LET fast == Get(ind.ema, "fast")
        slow == Get(ind.ema, "slow")
        prevValue == Get(ind.rsi, "prevValue")
        isNaN == fast = Undefined \/ slow = Undefined
        biasScore == (ToNum(ind.rsi.value) - 50)
                     + (IF ~IsNull(ind.macd.histogram)
                        THEN Val(ind.macd.histogram) * 150 ELSE 0)
                     + (ToNum(fast) - ToNum(slow)) * 15
                     + (IF ind.price.current > ToNum(fast) THEN 15 ELSE -15)
                     + (IF ~IsNull(ind.stochastic.k) /\ Val(ind.stochastic.k) < 20
                        THEN 10 ELSE 0)
                     - (IF ~IsNull(ind.stochastic.k) /\ Val(ind.stochastic.k) > 80
                        THEN 10 ELSE 0)
    IN IF isNaN THEN -1
       ELSE IF Abs(biasScore) < 5
            THEN IF prevValue /= Undefined /\ JsGT(ind.rsi.value, prevValue) THEN 1 ELSE -1
            ELSE IF biasScore > 0 THEN 1 ELSE -1

\* the signalType built by the forced branch of generateSignal
ForcedType(bias) ==
    LET action == IF bias = 1 THEN "UP" ELSE "DOWN"
    IN [action |-> action,
        color |-> IF action = "UP" THEN "#00ff88" ELSE "#ff3344",
        level |-> "prediction"]

\* what buildTradePlan derives from the action and the targets of a
\* non-neutral signal
PlanSide(st, tgt) ==
    [action |-> IF IsBuyAction(st.action) THEN "BUY" ELSE "SELL",
     entry |-> tgt.entry,
     exit |-> IF Len(tgt.takeProfits) > 0 THEN Num(tgt.takeProfits[1].price) ELSE Null,
     stopLoss |-> tgt.stopLoss]

InitPrediction ==
    /\ pc = "snapshot"
    /\ indicators \in {computeAll(t) : t \in SignalTails}
    /\ timeframe = "5m"
    /\ args = [isPredictionMode |-> TRUE]
    /\ result = Null
    /\ signals = Null
    /\ score = Null
    /\ signalType = Null
    /\ targets = Null
    /\ tradePlan = Null
    /\ breakdown = Null
    /\ candles = Null
    /\ error = Null
    /\ InitHistory
    /\ InitNoApp
    /\ InitNoStream

\* if (isPredictionMode && timeframe === '5m') { ... signalType = { action, ... } }
ForcePrediction ==
    /\ pc = "snapshot"
    /\ args.isPredictionMode
    /\ timeframe = "5m"
    /\ signalType' = ForcedType(getForcedPrediction(indicators))
    /\ pc' = "forced"
    /\ UNCHANGED <<indicators, signals, score, targets, tradePlan, breakdown,
                   inputVars, callVars, historyVars, appVars, streamVars>>

\* the targets and the trade plan of the forced signalType
PredictionTargets ==
    /\ pc = "forced"
    /\ targets' = calculateTargets(indicators, signalType)
    /\ tradePlan' = PlanSide(signalType, calculateTargets(indicators, signalType))
    /\ pc' = "predicted"
    /\ UNCHANGED <<indicators, signals, score, signalType, breakdown,
                   inputVars, callVars, historyVars, appVars, streamVars>>

NextPrediction == ForcePrediction \/ PredictionTargets

SpecPrediction == InitPrediction /\ [][NextPrediction]_vars

\* the targets and the trade plan for each of the two forced signal types
InitForced ==
    /\ pc = "forced"
    /\ indicators \in {computeAll(t) : t \in TargetTails}
    /\ signalType \in {ForcedType(bias) : bias \in {1, -1}}
    /\ timeframe = "5m"
    /\ args = [isPredictionMode |-> TRUE]
    /\ result = Null
    /\ signals = Null
    /\ score = Null
    /\ targets = Null
    /\ tradePlan = Null
    /\ breakdown = Null
    /\ candles = Null
    /\ error = Null
    /\ InitHistory
    /\ InitNoApp
    /\ InitNoStream

NextForced == PredictionTargets

SpecForced == InitForced /\ [][NextForced]_vars

(***************************************************************************)
(* The app controller: fetchAndAnalyze and its callers                     *)
(*                                                                         *)
(* JavaScript runs one task at a time: a handler or the continuation of an *)
(* await starts only when nothing else is executing (running = 0) and      *)
(* keeps the thread until it returns or reaches its next await.  The       *)
(* candle array is represented by what it was fetched for; computeAll and  *)
(* generateSignal carry that provenance into their results.                *)
(***************************************************************************)
MaxCalls == 3

Pairs == {"BTC/USD", "ETH/USD"}

RefreshTimeframes == {"15m", "1h"}

\* prices reported by the ticker
Prices == {1, 2}

AnalysisSteps == <<"computeAll", "generateSignal", "recordSignal">>

\* fetchAndAnalyze() up to its await: both fetches are issued with the pair
\* and the timeframe selected at the time of the call; `after` is what the
\* caller does once the returned promise resolves
Invoke(pair, tf, after) ==
    Append(calls, [pc |-> "fetching", pair |-> pair, timeframe |-> tf, after |-> after])

Step(id, position) == [calls EXCEPT ![id].pc = position]

\* init(): state after the module has loaded and init() has reached
\* await fetchAndAnalyze()
InitApp ==
    /\ pc = "app"
    /\ currentPair = "BTC/USD"
    /\ currentTimeframe = "15m"
    /\ isPredictionMode = FALSE
    /\ currentSignal = Null
    /\ candles = <<>>
    /\ indicators = Null
    /\ refreshInterval = FALSE
    /\ calls = <<[pc |-> "fetching", pair |-> "BTC/USD", timeframe |-> "15m",
                  after |-> "startAutoRefresh"]>>
    /\ running = 0
    /\ sectionLog = <<>>
    /\ signals = Null
    /\ score = Null
    /\ signalType = Null
    /\ targets = Null
    /\ timeframe = Null
    /\ tradePlan = Null
    /\ breakdown = Null
    /\ error = Null
    /\ args = Null
    /\ result = Null
    /\ signalHistory = <<>>
    /\ recorded = <<>>
    /\ offered = Null
    /\ changed = Null
    /\ prevHistory = <<>>
    /\ now = 0
    /\ richCalls = 0
    /\ InitNoStream

\* setInterval(fetchAndAnalyze, interval)
AutoRefresh ==
    /\ running = 0
    /\ refreshInterval
    /\ Len(calls) < MaxCalls
    /\ calls' = Invoke(currentPair, currentTimeframe, "nothing")
    /\ UNCHANGED <<pc, scoringVars, inputVars, callVars, historyVars, streamVars,
                   currentPair, currentTimeframe, isPredictionMode, currentSignal,
                   refreshInterval, running, sectionLog>>

\* the 'change' handler of the prediction toggle
PredictionToggle ==
    /\ running = 0
    /\ Len(calls) < MaxCalls
    /\ isPredictionMode' = ~isPredictionMode
    /\ calls' = Invoke(currentPair, currentTimeframe, "nothing")
    /\ UNCHANGED <<pc, scoringVars, inputVars, callVars, historyVars, streamVars,
                   currentPair, currentTimeframe, currentSignal,
                   refreshInterval, running, sectionLog>>

\* pollPancakeRound(): the round is about to lock
RoundLocking ==
    /\ running = 0
    /\ isPredictionMode
    /\ Len(calls) < MaxCalls
    /\ calls' = Invoke(currentPair, currentTimeframe, "nothing")
    /\ UNCHANGED <<pc, scoringVars, inputVars, callVars, historyVars, streamVars,
                   currentPair, currentTimeframe, isPredictionMode, currentSignal,
                   refreshInterval, running, sectionLog>>

\* the click handler of a timeframe button: if (tf !== currentTimeframe)
\* switchTimeframe(tf), up to its await
SwitchTimeframe(tf) ==
    /\ running = 0
    /\ Len(calls) < MaxCalls
    /\ tf /= currentTimeframe
    /\ currentTimeframe' = tf
    /\ calls' = Invoke(currentPair, tf, "startAutoRefresh")
    /\ UNCHANGED <<pc, scoringVars, inputVars, callVars, historyVars, streamVars,
                   currentPair, isPredictionMode, currentSignal,
                   refreshInterval, running, sectionLog>>

\* the 'change' handler of the pair selector (it fires when the selected
\* value has changed): switchPair(pair), up to its await
SwitchPair(pair) ==
    /\ running = 0
    /\ Len(calls) < MaxCalls
    /\ pair /= currentPair
    /\ currentPair' = pair
    /\ calls' = Invoke(pair, currentTimeframe, "startAutoRefresh")
    /\ UNCHANGED <<pc, scoringVars, inputVars, callVars, historyVars, streamVars,
                   currentTimeframe, isPredictionMode, currentSignal,
                   refreshInterval, running, sectionLog>>

\* the awaiting caller continues when fetchAndAnalyze has returned
Settle(id) ==
    /\ running' = 0
    /\ refreshInterval' = (refreshInterval \/ calls[id].after = "startAutoRefresh")

\* Promise.all rejects: the catch block
FetchRejects(id) ==
    /\ running = 0
    /\ calls[id].pc = "fetching"
    /\ calls' = Step(id, "failed")
    /\ Settle(id)
    /\ UNCHANGED <<pc, scoringVars, inputVars, callVars, historyVars, streamVars,
                   currentPair, currentTimeframe, isPredictionMode, currentSignal,
                   sectionLog>>

\* Promise.all resolves and the continuation starts: candles = candleData;
\* livePrice = tickerData.price
FetchResolves(id) ==
    /\ running = 0
    /\ calls[id].pc = "fetching"
    /\ candles' = [pair |-> calls[id].pair, timeframe |-> calls[id].timeframe]
    /\ \E price \in Prices : livePrice' = Num(price)
    /\ running' = id
    /\ calls' = Step(id, "assigned")
    /\ UNCHANGED <<pc, scoringVars, timeframe, error, callVars, historyVars,
                   sockets, reconnectTimer, isClosing, onErrorCalls,
                   currentPair, currentTimeframe, isPredictionMode, currentSignal,
                   refreshInterval, sectionLog>>

\* mutation: the controller awaits between computeAll and generateSignal
ComputeIndicators_awaited(id) ==
    /\ running = id
    /\ calls[id].pc = "assigned"
    /\ indicators' = [candles |-> candles]
    /\ calls' = Step(id, "computed")
    /\ sectionLog' = Append(sectionLog, [call |-> id, step |-> "computeAll"])
    /\ running' = 0
    /\ UNCHANGED <<pc, signals, score, signalType, targets, tradePlan, breakdown,
                   inputVars, callVars, historyVars, streamVars,
                   currentPair, currentTimeframe, isPredictionMode, currentSignal,
                   refreshInterval>>

\* currentIndicators = computeAll(candles)
ComputeIndicators(id) ==
    /\ running = id
    /\ calls[id].pc = "assigned"
    /\ indicators' = [candles |-> candles]
    /\ calls' = Step(id, "computed")
    /\ sectionLog' = Append(sectionLog, [call |-> id, step |-> "computeAll"])
    /\ UNCHANGED <<pc, signals, score, signalType, targets, tradePlan, breakdown,
                   inputVars, callVars, historyVars, streamVars,
                   currentPair, currentTimeframe, isPredictionMode, currentSignal,
                   refreshInterval, running>>

\* currentSignal = generateSignal(currentIndicators, currentTimeframe,
\* isPredictionMode); `pair` is the pair the page shows the signal under
GenerateCurrentSignal(id) ==
    /\ running = id
    /\ calls[id].pc = "computed"
    /\ currentSignal' = [indicators |-> indicators, timeframe |-> currentTimeframe,
                         isPredictionMode |-> isPredictionMode, pair |-> currentPair,
                         call |-> id]
    /\ calls' = Step(id, "generated")
    /\ sectionLog' = Append(sectionLog, [call |-> id, step |-> "generateSignal"])
    /\ UNCHANGED <<pc, scoringVars, inputVars, callVars, historyVars, streamVars,
                   currentPair, currentTimeframe, isPredictionMode,
                   refreshInterval, running>>

\* const changed = recordSignal(currentSignal), the UI updates, return;
\* whether the signal differs enough from the last entry depends on the
\* candles' values, which are not represented
RecordCurrentSignal(id) ==
    /\ running = id
    /\ calls[id].pc = "generated"
    /\ \E pushed \in BOOLEAN :
          /\ changed' = pushed
          /\ signalHistory' = IF pushed
                              THEN (IF Len(signalHistory) >= MAX_HISTORY
                                    THEN Tail(signalHistory) ELSE signalHistory)
                                   \o <<currentSignal>>
                              ELSE signalHistory
    /\ prevHistory' = signalHistory
    /\ offered' = currentSignal
    /\ calls' = Step(id, "done")
    /\ sectionLog' = Append(sectionLog, [call |-> id, step |-> "recordSignal"])
    /\ Settle(id)
    /\ UNCHANGED <<pc, scoringVars, inputVars, callVars, recorded, now, richCalls,
                   streamVars, currentPair, currentTimeframe, isPredictionMode,
                   currentSignal>>

NextApp ==
    \/ AutoRefresh
    \/ PredictionToggle
    \/ RoundLocking
    \/ \E tf \in RefreshTimeframes : SwitchTimeframe(tf)
    \/ \E pair \in Pairs : SwitchPair(pair)
    \/ \E id \in 1..Len(calls) : FetchRejects(id)
    \/ \E id \in 1..Len(calls) : FetchResolves(id)
    \/ \E id \in 1..Len(calls) : ComputeIndicators(id)
    \/ \E id \in 1..Len(calls) : GenerateCurrentSignal(id)
    \/ \E id \in 1..Len(calls) : RecordCurrentSignal(id)

SpecApp == InitApp /\ [][NextApp]_vars

(***************************************************************************)
(* createPriceStream: one stream, its sockets and its reconnect timer      *)
(*                                                                         *)
(* `ws` is the WebSocket constructed last.  reconnectTimer is "null"       *)
(* until the first setTimeout; afterwards it holds a timer id, whose timer *)
(* is pending, has fired or has been cleared.                              *)
(***************************************************************************)
MaxSockets == 3

MaxErrors == 2

ws == Len(sockets)

\* connect(): ws = new WebSocket(KRAKEN_WS)
connect == Append(sockets, "CONNECTING")

\* createPriceStream() has returned: connect() has run once
InitStream ==
    /\ pc = "stream"
    /\ sockets = <<"CONNECTING">>
    /\ reconnectTimer = "null"
    /\ isClosing = FALSE
    /\ onErrorCalls = 0
    /\ livePrice = Null
    /\ indicators = Null
    /\ signals = Null
    /\ score = Null
    /\ signalType = Null
    /\ targets = Null
    /\ timeframe = Null
    /\ tradePlan = Null
    /\ breakdown = Null
    /\ candles = Null
    /\ error = Null
    /\ args = Null
    /\ result = Null
    /\ signalHistory = <<>>
    /\ recorded = <<>>
    /\ offered = Null
    /\ changed = Null
    /\ prevHistory = <<>>
    /\ now = 0
    /\ richCalls = 0
    /\ InitNoApp

\* ws.onopen: the subscription is sent
SocketOpens ==
    /\ sockets[ws] = "CONNECTING"
    /\ sockets' = [sockets EXCEPT ![ws] = "OPEN"]
    /\ UNCHANGED <<pc, scoringVars, inputVars, callVars, historyVars, appVars,
                   reconnectTimer, isClosing, onErrorCalls, livePrice>>

\* ws.onmessage with a ticker update: onPrice({ price, ... })
SocketMessage(price) ==
    /\ sockets[ws] \in {"OPEN", "CLOSING"}
    /\ livePrice' = Num(price)
    /\ UNCHANGED <<pc, scoringVars, inputVars, callVars, historyVars, appVars,
                   sockets, reconnectTimer, isClosing, onErrorCalls>>

\* ws.onerror: onError(error)
SocketError ==
    /\ sockets[ws] /= "CLOSED"
    /\ onErrorCalls < MaxErrors
    /\ onErrorCalls' = onErrorCalls + 1
    /\ UNCHANGED <<pc, scoringVars, inputVars, callVars, historyVars, appVars,
                   sockets, reconnectTimer, isClosing, livePrice>>

\* ws.onclose: if (!isClosing) reconnectTimer = setTimeout(connect, 3000).
\* The network ends at most MaxSockets - 1 connections on its own.
SocketCloses ==
    /\ sockets[ws] /= "CLOSED"
    /\ sockets[ws] /= "CLOSING" => Len(sockets) < MaxSockets
    /\ sockets' = [sockets EXCEPT ![ws] = "CLOSED"]
    /\ reconnectTimer' = IF ~isClosing THEN "pending" ELSE reconnectTimer
    /\ UNCHANGED <<pc, scoringVars, inputVars, callVars, historyVars, appVars,
                   isClosing, onErrorCalls, livePrice>>

\* the timeout set by onclose expires: connect()
ReconnectTimerFires ==
    /\ reconnectTimer = "pending"
    /\ sockets' = connect
    /\ reconnectTimer' = "fired"
    /\ UNCHANGED <<pc, scoringVars, inputVars, callVars, historyVars, appVars,
                   isClosing, onErrorCalls, livePrice>>

\* mutation: close() leaves the pending reconnect timer alone
Close_keepsTimer ==
    /\ isClosing' = TRUE
    /\ sockets' = IF ws > 0 /\ sockets[ws] \in {"CONNECTING", "OPEN"}
                  THEN [sockets EXCEPT ![ws] = "CLOSING"]
                  ELSE sockets
    /\ UNCHANGED <<pc, scoringVars, inputVars, callVars, historyVars, appVars,
                   reconnectTimer, onErrorCalls, livePrice>>

\* close(): isClosing = true; if (reconnectTimer) clearTimeout(reconnectTimer);
\* if (ws) ws.close()
Close ==
    /\ isClosing' = TRUE
    /\ reconnectTimer' = IF reconnectTimer = "pending" THEN "cleared" ELSE reconnectTimer
    /\ sockets' = IF ws > 0 /\ sockets[ws] \in {"CONNECTING", "OPEN"}
                  THEN [sockets EXCEPT ![ws] = "CLOSING"]
                  ELSE sockets
    /\ UNCHANGED <<pc, scoringVars, inputVars, callVars, historyVars, appVars,
                   onErrorCalls, livePrice>>

NextStream ==
    \/ SocketOpens
    \/ \E price \in Prices : SocketMessage(price)
    \/ SocketError
    \/ SocketCloses
    \/ ReconnectTimerFires
    \/ Close

SpecStream == InitStream /\ [][NextStream]_vars

\* a timeout that has been set and not cleared expires
FairStream == SpecStream /\ WF_vars(ReconnectTimerFires)

(***************************************************************************)
(* Properties                                                              *)
(***************************************************************************)
KeySet == {Keys[i] : i \in 1..Len(Keys)}

\* C1: for every snapshot the confluence score computed from the output of
\* getIndicatorSignals is an integer in [-100, 100], and the absolute
\* weighted sum of the eight sub-signals never exceeds the total weight.
C1_ScoreInRange ==
    pc = "generated" =>
        /\ score \in -100..100
        /\ Abs(WeightedSum(signals, Len(Keys))) <= TOTAL_WEIGHT * 1000
        /\ TOTAL_WEIGHT = 100

\* every family at its strongest bullish value: the largest score there is
C1_Witness ==
    /\ pc = "generated"
    /\ score = 96
    /\ signals.rsi = 1000 /\ signals.macdCross = 1000 /\ signals.macdDivergence = 1000
    /\ signals.adxTrend = 700 /\ signals.volumeOBV = 800

\* C2: getSignalType maps every integer score in [-100, 100] to exactly one
\* action: >= 60 STRONG BUY, 30..59 BUY, -29..29 NEUTRAL, -59..-30 SELL,
\* <= -60 STRONG SELL.
C2_TypePartition ==
    pc = "typed" =>
        /\ score \in -100..100
        /\ (signalType.action = "STRONG BUY")  <=> (score >= 60)
        /\ (signalType.action = "BUY")         <=> (score \in 30..59)
        /\ (signalType.action = "NEUTRAL")     <=> (score \in -29..29)
        /\ (signalType.action = "SELL")        <=> (score \in -59..-30)
        /\ (signalType.action = "STRONG SELL") <=> (score <= -60)
        /\ signalType.action \in {"STRONG BUY", "BUY", "NEUTRAL", "SELL", "STRONG SELL"}

C2_Witness ==
    /\ pc = "typed"
    /\ score = -30
    /\ signalType.action = "SELL"

\* C3: getIndicatorSignals returns all eight keys, each in [-1, 1], and a
\* key is 0 whenever the indicator it is derived from is null (for the
\* divergence key: whenever the oscillator whose divergence it reports is
\* null; for the volume key: whenever the OBV trend is not yet defined).
C3_SignalVector ==
    pc = "generated" =>
        /\ DOMAIN signals = KeySet
        /\ \A k \in KeySet : signals[k] \in -1000..1000
        /\ IsNull(indicators.rsi.value) => signals.rsi = 0
        /\ IsNull(indicators.macd.macdLine) => signals.macdCross = 0
        /\ IsNull(indicators.macd.histogram) /\ IsNull(indicators.rsi.value)
              => signals.macdDivergence = 0
        /\ IsNull(indicators.macd.histogram) /\ indicators.rsi.divergence.type = "none"
              => signals.macdDivergence = 0
        /\ IsNull(indicators.bollinger.percentB) => signals.bollingerBands = 0
        /\ IsNull(indicators.stochastic.k) => signals.stochastic = 0
        /\ IsNull(indicators.ema.ema9) \/ IsNull(indicators.ema.ema21) => signals.emaCross = 0
        /\ IsNull(indicators.adx.value) => signals.adxTrend = 0
        /\ indicators.obv.trend = "neutral" => signals.volumeOBV = 0

\* a short series: RSI, MACD and ADX are still null while EMA9 and OBV are not
C3_Witness ==
    /\ pc = "generated"
    /\ IsNull(indicators.rsi.value) /\ signals.rsi = 0
    /\ IsNull(indicators.ema.ema21) /\ ~IsNull(indicators.ema.ema9) /\ signals.emaCross = 0
    /\ IsNull(indicators.adx.value) /\ signals.adxTrend = 0
    /\ signals.volumeOBV /= 0

\* C4: the signal history never holds more than 20 entries.
C4_HistoryBounded == Len(signalHistory) <= 20

\* more entries have been pushed than the history can hold
C4_Witness ==
    /\ Len(recorded) > MAX_HISTORY + 1
    /\ Len(signalHistory) = 20

\* C5: recordSignal appends one entry and returns true exactly when the
\* history is empty, or the action differs from the last recorded entry's,
\* or the scores differ by at least 10; otherwise it returns false and
\* leaves the history unchanged.
C5_RecordCondition ==
    offered /= Null =>
        LET material ==
                \/ prevHistory = <<>>
                \/ prevHistory[Len(prevHistory)].action /= offered.action
                \/ offered.score - prevHistory[Len(prevHistory)].score >= 10
                \/ prevHistory[Len(prevHistory)].score - offered.score >= 10
        IN /\ changed <=> material
           /\ changed =>
                 /\ signalHistory /= <<>>
                 /\ signalHistory[Len(signalHistory)].score = offered.score
                 /\ signalHistory[Len(signalHistory)].action = offered.action
                 /\ signalHistory[Len(signalHistory)].timestamp = offered.timestamp
                 /\ \/ Len(signalHistory) = Len(prevHistory) + 1
                    \/ Len(prevHistory) = MAX_HISTORY /\ Len(signalHistory) = MAX_HISTORY
                 /\ \A i \in 1..(Len(signalHistory) - 1) :
                        \E j \in 1..Len(prevHistory) : prevHistory[j] = signalHistory[i]
           /\ ~changed => signalHistory = prevHistory

\* same action as the last entry, score exactly 10 away: recorded
C5_Witness ==
    /\ offered /= Null
    /\ prevHistory /= <<>>
    /\ prevHistory[Len(prevHistory)].action = offered.action
    /\ Abs(prevHistory[Len(prevHistory)].score - offered.score) = 10
    /\ changed = TRUE

\* C6: when an entry is appended to a full history exactly the oldest entry
\* is removed and the others keep their order, so getSignalHistory is always
\* the most recently recorded entries (at most 20), in recording order.
C6_OldestEvicted ==
    LET n == Len(recorded)
        kept == IF n > 20 THEN 20 ELSE n
    IN /\ getSignalHistory = SubSeq(recorded, n - kept + 1, n)
       /\ (offered /= Null /\ changed = TRUE /\ Len(prevHistory) = 20)
             => getSignalHistory = Append(Tail(prevHistory), recorded[n])

\* an append to a full history whose entries are not all recorded by the
\* alternating offers
C6_Witness ==
    /\ offered /= Null
    /\ changed = TRUE
    /\ Len(prevHistory) = 20
    /\ Len(recorded) >= 23
    /\ richCalls >= 2

\* the volatility unit of calculateTargets, times 100: the snapshot's ATR
\* when it is defined and non-zero, 1% of the current price otherwise
UnitTimes100(ind) ==
    IF ~IsNull(ind.atr.value) /\ Val(ind.atr.value) /= 0
    THEN 100 * Val(ind.atr.value)
    ELSE ind.price.current


\* C7: calculateTargets returns entry = null, stopLoss = null, no
\* take-profits and riskReward = null exactly when the action is NEUTRAL;
\* for every other action entry is the current close.
C7_NeutralHasNoTargets ==
    pc = "targets" =>
        /\ (signalType.action = "NEUTRAL")
              <=> (/\ targets.entry = Null
                   /\ targets.stopLoss = Null
                   /\ targets.takeProfits = <<>>
                   /\ targets.riskReward = Null)
        /\ (signalType.action = "NEUTRAL")
              <=> (\/ targets.entry = Null
                   \/ targets.stopLoss = Null
                   \/ targets.takeProfits = <<>>
                   \/ targets.riskReward = Null)
        /\ signalType.action /= "NEUTRAL" => targets.entry = Num(indicators.price.current)

C7_Witness ==
    /\ pc = "targets"
    /\ signalType.action = "NEUTRAL"
    /\ indicators.price.current > 0
    /\ targets.entry = Null
    /\ targets.takeProfits = <<>>

\* C8: stopLoss = entry - 1.5 A on a buy and entry + 1.5 A on a sell, where
\* A is the ATR when defined and non-zero and 1% of the price otherwise;
\* for a positive price the stop is strictly below (buy) or above (sell) entry.
C8_StopLoss ==
    (pc = "targets" /\ signalType.action /= "NEUTRAL") =>
        LET entry == Val(targets.entry)
            stop == Val(targets.stopLoss)
            buy == signalType.action \in {"BUY", "STRONG BUY"}
            sell == signalType.action \in {"SELL", "STRONG SELL"}
        IN /\ buy \/ sell
           /\ buy => 200 * (entry - stop) = 3 * UnitTimes100(indicators)
           /\ sell => 200 * (stop - entry) = 3 * UnitTimes100(indicators)
           /\ (indicators.price.current > 0 /\ buy) => stop < entry
           /\ (indicators.price.current > 0 /\ sell) => stop > entry

\* a sell on a flat series: ATR is 0, the unit is 1% of the price
C8_Witness ==
    /\ pc = "targets"
    /\ signalType.action = "STRONG SELL"
    /\ indicators.atr.value = Num(0)
    /\ indicators.price.current = 2000
    /\ targets.stopLoss = Num(2030)

\* indexes of the Fibonacci levels strictly beyond the price in the trade direction
Qualifying(ind, buy) ==
    {i \in 1..Len(ind.fibonacci.levels) :
        IF buy THEN ind.fibonacci.levels[i].price > ind.price.current
        ELSE ind.fibonacci.levels[i].price < ind.price.current}

\* the take-profits are the nearest one or two qualifying Fibonacci levels in
\* order of distance, or the pair entry +- 2A, entry +- 3A when none qualifies
TakeProfitLevels(ind, tgt, buy) ==
    LET Q == Qualifying(ind, buy)
        tps == tgt.takeProfits
        entry == Val(tgt.entry)
        lp(i) == ind.fibonacci.levels[i].price
        dist(x) == Abs(x - entry)
        sgn == IF buy THEN 1 ELSE -1
    IN /\ Len(tps) \in {1, 2}
       /\ Q = {} <=> tps[1].label[2] = "2x ATR"
       /\ Q = {} =>
             /\ Len(tps) = 2
             /\ 100 * (tps[1].price - entry) = sgn * 2 * UnitTimes100(ind)
             /\ 100 * (tps[2].price - entry) = sgn * 3 * UnitTimes100(ind)
       /\ Q /= {} =>
             /\ Len(tps) = (IF Cardinality(Q) >= 2 THEN 2 ELSE 1)
             /\ \E i \in Q :
                   /\ tps[1].price = lp(i)
                   /\ tps[1].label = <<"TP1", ind.fibonacci.levels[i].label>>
                   /\ \A m \in Q : dist(lp(i)) <= dist(lp(m))
                   /\ Cardinality(Q) >= 2 =>
                         \E j \in Q \ {i} :
                            /\ tps[2].price = lp(j)
                            /\ tps[2].label = <<"TP2", ind.fibonacci.levels[j].label>>
                            /\ \A m \in Q \ {i} : dist(lp(j)) <= dist(lp(m))
       /\ Len(tps) = 2 => dist(tps[1].price) <= dist(tps[2].price)

\* C9 as claimed: the take-profits are the nearest one or two qualifying
\* Fibonacci levels, the ATR pair is used iff none qualifies, and every
\* take-profit lies strictly on the profit side of entry.
C9_AsClaimed ==
    (pc = "targets" /\ signalType.action /= "NEUTRAL") =>
        LET buy == signalType.action \in {"BUY", "STRONG BUY"}
            tps == targets.takeProfits
        IN /\ TakeProfitLevels(indicators, targets, buy)
           /\ \A i \in 1..Len(tps) :
                 IF buy THEN tps[i].price > Val(targets.entry)
                 ELSE tps[i].price < Val(targets.entry)

\* C9 amended: as claimed, except that the take-profits lie strictly on the
\* profit side only when the volatility unit A is positive; when A is 0 (price
\* 0 with the ATR null or 0) and no Fibonacci level qualifies, both
\* take-profits equal entry.
C9_TakeProfits ==
    (pc = "targets" /\ signalType.action /= "NEUTRAL") =>
        LET buy == signalType.action \in {"BUY", "STRONG BUY"}
            tps == targets.takeProfits
            strict == \A i \in 1..Len(tps) :
                         IF buy THEN tps[i].price > Val(targets.entry)
                         ELSE tps[i].price < Val(targets.entry)
        IN /\ TakeProfitLevels(indicators, targets, buy)
           /\ UnitTimes100(indicators) > 0 => strict
           /\ tps[1].label[2] /= "2x ATR" => strict
           /\ (UnitTimes100(indicators) = 0 /\ Qualifying(indicators, buy) = {})
                 => \A i \in 1..Len(tps) : tps[i].price = Val(targets.entry)

\* a sell with three levels below the price: the two nearest ones are taken
C9_Witness ==
    /\ pc = "targets"
    /\ signalType.action = "SELL"
    /\ Cardinality(Qualifying(indicators, FALSE)) >= 3
    /\ Len(targets.takeProfits) = 2
    /\ targets.takeProfits[1].price > targets.takeProfits[2].price
    /\ targets.takeProfits[1].price < Val(targets.entry)

\* C10: with non-zero risk, riskReward is |takeProfits[0].price - entry| /
\* |entry - stopLoss| recomputed from the returned fields, to two decimals;
\* with zero risk it is not a number.
C10_RiskReward ==
    (pc = "targets" /\ signalType.action /= "NEUTRAL") =>
        LET risk == Abs(Val(targets.entry) - Val(targets.stopLoss))
            reward == Abs(targets.takeProfits[1].price - Val(targets.entry))
            rr == targets.riskReward
        IN /\ risk /= 0 =>
                 /\ IsNumber(rr)
                 /\ Val(rr) >= 0
                 \* | rr / 100 - reward / risk | <= 0.005
                 /\ 2 * Abs(Val(rr) * risk - 100 * reward) <= risk
           /\ risk = 0 => ~IsNumber(rr) /\ rr = NotAvailable

\* a ratio that is not a whole number of hundredths
C10_Witness ==
    /\ pc = "targets"
    /\ signalType.action = "BUY"
    /\ IsNumber(targets.riskReward)
    /\ targets.takeProfits[1].label[2] /= "2x ATR"
    /\ LET risk == Abs(Val(targets.entry) - Val(targets.stopLoss))
           reward == Abs(targets.takeProfits[1].price - Val(targets.entry))
       IN Val(targets.riskReward) * risk /= 100 * reward

(***************************************************************************)
(* Trade plan                                                              *)
(***************************************************************************)
\* C11: for a NEUTRAL action the plan is a wait plan whose entry, exit,
\* stopLoss and holdTime are null and whose support and resistance are the
\* Bollinger lower and upper bands when available and price - 2*ATR and
\* price + 2*ATR when not, so that neither is ever null.
C11_NeutralPlan ==
    (pc = "generated" /\ signalType.action = "NEUTRAL") =>
        LET price == indicators.price.current
            atrVal == JsOr(indicators.atr.value, price \div 100)
            lower == indicators.bollinger.lower
            upper == indicators.bollinger.upper
        IN /\ tradePlan.action = "WAIT"
           /\ IsNull(tradePlan.entry) /\ IsNull(tradePlan.exit)
           /\ IsNull(tradePlan.stopLoss) /\ IsNull(tradePlan.holdTime)
           /\ ~IsNull(tradePlan.support) /\ ~IsNull(tradePlan.resistance)
           /\ tradePlan.support = IF ~IsNull(lower) THEN lower ELSE Num(price - 2 * atrVal)
           /\ tradePlan.resistance = IF ~IsNull(upper) THEN upper ELSE Num(price + 2 * atrVal)

ReasonKinds(ind, isBuy) ==
    <<ind.rsi.isOversold \/ ind.rsi.isOverbought,
      ind.macd.isBullishCross \/ ind.macd.isBearishCross,
      ind.stochastic.isOversold \/ ind.stochastic.isOverbought,
      ~IsNull(ind.ema.ema9),
      ind.bollinger.isNearLower \/ ind.bollinger.isNearUpper,
      ind.adx.isStrong,
      ind.vwap.priceAboveVwap <=> isBuy,
      ind.rsi.divergence.type /= "none",
      ind.macd.divergence.type /= "none">>

\* the condition a reason text belongs to
KindOf(reason) ==
    CASE reason[1] \in {"RSI oversold", "RSI overbought"} -> 1
      [] reason[1] \in {"MACD bullish cross", "MACD bearish cross"} -> 2
      [] reason[1] \in {"Stochastic oversold", "Stochastic overbought"} -> 3
      [] reason[1] \in {"EMA 9 > 21 (bullish)", "EMA 9 < 21 (bearish)"} -> 4
      [] reason[1] \in {"Near Bollinger lower band", "Near Bollinger upper band"} -> 5
      [] reason[1] = "Strong trend (ADX" -> 6
      [] reason[1] \in {"Price above VWAP", "Price below VWAP"} -> 7
      [] Len(reason) = 2 /\ reason[2] = "RSI divergence" -> 8
      [] Len(reason) = 2 /\ reason[2] = "MACD divergence" -> 9
      [] OTHER -> 0

\* the indices of the true conditions among the first n, in increasing order
RECURSIVE TrueKinds(_, _)
TrueKinds(kinds, n) ==
    IF n = 0 THEN <<>>
    ELSE TrueKinds(kinds, n - 1) \o (IF kinds[n] THEN <<n>> ELSE <<>>)

\* C13: for a non-neutral plan the reasons list has at most five elements and
\* is exactly the first (up to) five true conditions in the fixed check order;
\* no true condition is skipped in favour of a later one.
C13_Reasons ==
    (pc = "generated" /\ signalType.action /= "NEUTRAL") =>
        LET kinds == ReasonKinds(indicators, IsBuyAction(signalType.action))
            expected == TrueKinds(kinds, Len(kinds))
            reasons == tradePlan.reasons
        IN /\ Len(reasons) <= 5
           /\ Len(reasons) = Min(5, Len(expected))
           /\ \A i \in 1..Len(reasons) : KindOf(reasons[i]) = expected[i]

\* more than five conditions are true, the later ones are left out
C13_Witness ==
    /\ pc = "generated"
    /\ signalType.action /= "NEUTRAL"
    /\ Len(tradePlan.reasons) = 5
    /\ LET kinds == ReasonKinds(indicators, IsBuyAction(signalType.action))
       IN /\ Len(TrueKinds(kinds, Len(kinds))) >= 7
          /\ kinds[9]
          /\ ~kinds[1]

(***************************************************************************)
(* Candle series: rising, flat, short and empty                            *)
(***************************************************************************)
Closes == [i \in 1..Len(candles) |-> candles[i].close]

Rising == \A i \in 1..Len(candles) - 1 : candles[i + 1].close > candles[i].close

ConstantVolume == \A i \in 1..Len(candles) : candles[i].volume = candles[1].volume

AllClosesEqual == \A i \in 1..Len(candles) : candles[i].close = candles[1].close

NoWicks == \A i \in 1..Len(candles) : /\ candles[i].high = candles[i].close
                                      /\ candles[i].low = candles[i].close

RisingCase == pc = "generated" /\ Len(candles) = 60 /\ Rising /\ ConstantVolume

\* the statement as claimed for C15: such a series gives EMA9 > EMA21, an RSI
\* at or near 100 and the action BUY or STRONG BUY
C15_AsClaimed ==
    RisingCase =>
        /\ Val(indicators.ema.ema9) > Val(indicators.ema.ema21)
        /\ Val(indicators.rsi.value) >= 99
        /\ signalType.action \in {"BUY", "STRONG BUY"}

\* C15: for every series of 60 candles whose closes rise from each candle to
\* the next and whose volume is constant, EMA9 > EMA21 and the RSI is exactly
\* 100, which is scored as extremely overbought (RSI sub-signal -1.0), and
\* the action is never STRONG BUY
C15_RisingSeries ==
    RisingCase =>
        /\ Val(indicators.ema.ema9) > Val(indicators.ema.ema21)
        /\ indicators.ema.ema9AboveEma21
        /\ indicators.rsi.value = Num(100)
        /\ signals.rsi = -1000
        /\ signalType.action /= "STRONG BUY"

\* a rise in equal steps, each candle spanning its open and its close only,
\* that ends in the action NEUTRAL
C15_Witness ==
    /\ RisingCase
    /\ \A i \in 1..59 : candles[i + 1].close - candles[i].close = 20
    /\ \A i \in 1..60 : candles[i].high = candles[i].close /\ candles[i].low = candles[i].open
    /\ indicators.rsi.value = Num(100)
    /\ signalType.action = "NEUTRAL"

FlatCase == pc = "generated" /\ Len(candles) >= BB_PERIOD /\ AllClosesEqual

NullBefore(value, warmUp) ==
    /\ value /= Undefined
    /\ IsNull(value) <=> Len(candles) < warmUp

\* C18: on every series of at least one candle computeAll and generateSignal
\* raise no error, no element outside the arrays reaches the snapshot, and
\* each indicator is null exactly while its warm-up is not met
C18_ShortSeries ==
    (Len(candles) >= 1) =>
        /\ pc /= "failed"
        /\ error = Null
        /\ (pc \in {"snapshot", "generated"}) =>
            /\ NullBefore(indicators.ema.ema9, EMA_FAST)
            /\ NullBefore(indicators.ema.ema21, EMA_SLOW)
            /\ NullBefore(indicators.ema.sma200, SMA_LONG)
            /\ NullBefore(indicators.rsi.value, RSI_PERIOD + 1)
            /\ NullBefore(indicators.macd.macdLine, MACD_SLOW)
            /\ NullBefore(indicators.macd.signalLine, MACD_SLOW + MACD_SIGNAL - 1)
            /\ NullBefore(indicators.macd.histogram, MACD_SLOW + MACD_SIGNAL - 1)
            /\ (Len(candles) >= 2 => NullBefore(indicators.macd.prevHistogram,
                                                MACD_SLOW + MACD_SIGNAL))
            /\ (Len(candles) = 1 => IsNull(indicators.macd.prevHistogram))
            /\ NullBefore(indicators.bollinger.upper, BB_PERIOD)
            /\ NullBefore(indicators.bollinger.lower, BB_PERIOD)
            /\ (Len(candles) < BB_PERIOD => IsNull(indicators.bollinger.percentB))
            /\ indicators.bollinger.percentB /= Undefined
            /\ NullBefore(indicators.stochastic.k, STOCH_K)
            /\ NullBefore(indicators.stochastic.d, STOCH_K + STOCH_D - 1)
            /\ NullBefore(indicators.adx.value, 2 * ADX_PERIOD + 1)
            /\ NullBefore(indicators.atr.value, ATR_PERIOD + 1)
            /\ IsNumber(indicators.vwap.value)
            /\ IsNumber(indicators.obv.value)
            /\ (indicators.obv.trend = "neutral" <=> Len(candles) <= OBV_TREND_BARS)
            /\ indicators.rsi.divergence.type = "none" \/ Len(candles) >= DIV_LOOKBACK
            /\ indicators.macd.divergence.type = "none" \/ Len(candles) >= DIV_LOOKBACK
        /\ (pc = "generated") =>
            /\ score \in -100..100
            /\ \A k \in DOMAIN signals : signals[k] \in -1000..1000
            /\ (Len(candles) < EMA_FAST => signalType.action = "NEUTRAL")

\* a single candle went through both functions: every indicator with a
\* warm-up is null and the action is NEUTRAL
C18_Witness ==
    /\ Len(candles) = 1
    /\ pc = "generated"
    /\ IsNull(indicators.rsi.value)
    /\ IsNull(indicators.ema.ema9)
    /\ IsNull(indicators.atr.value)
    /\ signalType.action = "NEUTRAL"

\* C19: computeAll on an empty candle array fails with an error that
\* describes the input, and returns no snapshot
C19_EmptySeries ==
    (Len(candles) = 0 /\ pc /= "fetched") =>
        /\ pc = "failed"
        /\ indicators = Null
        /\ error /= Null
        /\ error[1] /= "TypeError"

(***************************************************************************)
(* The range of rsi                                                        *)
(***************************************************************************)
\* no close up to index i (from 0) is below the close before it
NoFallUpTo(closes, i) == \A j \in 2..i + 1 : closes[j] >= closes[j - 1]

\* C17: every non-null value returned by rsi(closes, period) is a number in
\* [0, 100]; at every index where the smoothed average loss is 0, and so at
\* every index before which no close fell, the value is exactly 100
C17_RsiRange ==
    pc = "returned" =>
        LET closes == args.closes
            period == args.period
        IN /\ Len(result) = Len(closes)
           /\ \A i \in 1..Len(result) :
                  \/ IsNull(result[i])
                  \/ IsNumber(result[i]) /\ Val(result[i]) \in 0..100
           /\ \A i \in period..Len(closes) - 1 :
                  /\ rsiAverages(closes, period)[i - period + 1].avgLoss = 0
                         => result[i + 1] = Num(100)
                  /\ NoFallUpTo(closes, i) => result[i + 1] = Num(100)

\* a call whose result holds the value 100 of a loss-free warm-up and, after
\* a fall, a value strictly between 0 and 100
C17_Witness ==
    /\ pc = "returned"
    /\ \E i \in 1..Len(result) :
           /\ result[i] = Num(100)
           /\ NoFallUpTo(args.closes, i - 1)
    /\ \E i \in 1..Len(result) :
           /\ IsNumber(result[i])
           /\ Val(result[i]) \in 1..99

(***************************************************************************)
(* The two most recent pivots                                              *)
(***************************************************************************)
\* the indices (from 0) scanned for pivots: the closes of the trailing
\* window that have both neighbours inside it; a series shorter than the
\* lookback has no window
WindowOf(closes, lookback) ==
    IF Len(closes) < lookback THEN {}
    ELSE Len(closes) - lookback + 1..Len(closes) - 2

PriceLows(closes, lookback) ==
    {i \in WindowOf(closes, lookback) :
        closes[i + 1] < closes[i] /\ closes[i + 1] <= closes[i + 2]}

PriceHighs(closes, lookback) ==
    {i \in WindowOf(closes, lookback) :
        closes[i + 1] > closes[i] /\ closes[i + 1] >= closes[i + 2]}

Latest(pivots) == CHOOSE i \in pivots : \A j \in pivots : j <= i

Previous(pivots) == Latest(pivots \ {Latest(pivots)})

\* the two latest pivots both carry an oscillator value, and from the
\* previous to the latest the price moved by priceSign and the oscillator
\* against it
Diverges(closes, osc, pivots, priceSign) ==
    /\ Cardinality(pivots) >= 2
    /\ LET curr == Latest(pivots) + 1
           prev == Previous(pivots) + 1
       IN /\ IsNumber(osc[curr]) /\ IsNumber(osc[prev])
          /\ priceSign * (closes[curr] - closes[prev]) > 0
          /\ priceSign * (Val(osc[curr]) - Val(osc[prev])) < 0

OscDelta(osc, pivots) ==
    Abs(Val(osc[Latest(pivots) + 1]) - Val(osc[Previous(pivots) + 1]))

\* C20: each detector returns bullish, with a strength in (0, 100] that is
\* the oscillator difference times its factor capped at 100, exactly when
\* the latest pivot low of the window is lower in price and higher in
\* oscillator value than the pivot low before it, whatever the older pivots;
\* otherwise bearish under the mirrored condition on the two latest pivot
\* highs; otherwise none with strength 0, as on a series shorter than the
\* lookback
C20_LatestPivots ==
    pc \in {"rsiDivergence", "macdDivergence"} =>
        LET closes == args.closes
            osc == args.osc
            factor == IF pc = "rsiDivergence" THEN 3 ELSE 50
            lows == PriceLows(closes, args.lookback)
            highs == PriceHighs(closes, args.lookback)
        IN IF Diverges(closes, osc, lows, -1)
           THEN /\ result.type = "bullish"
                /\ result.strength \in 1..100
                /\ result.strength = Min(100, OscDelta(osc, lows) * factor)
           ELSE IF Diverges(closes, osc, highs, 1)
                THEN /\ result.type = "bearish"
                     /\ result.strength \in 1..100
                     /\ result.strength = Min(100, OscDelta(osc, highs) * factor)
                ELSE result = [type |-> "none", strength |-> 0]

\* three pivot lows in the window, the latest not below the oldest in price
\* yet below the one before it: bullish, with a strength short of the cap
C20_Witness ==
    /\ pc = "rsiDivergence"
    /\ LET lows == PriceLows(args.closes, args.lookback)
       IN /\ Cardinality(lows) >= 3
          /\ \E oldest \in lows :
                 /\ oldest < Previous(lows)
                 /\ args.closes[Latest(lows) + 1] >= args.closes[oldest + 1]
    /\ result.type = "bullish"
    /\ result.strength \in 1..99

EmaComparison(back) ==
    LET fast == At(ema(Closes, EMA_FAST), Len(candles) - 1 - back)
        slow == At(ema(Closes, EMA_SLOW), Len(candles) - 1 - back)
    IN [defined |-> IsNumber(fast) /\ IsNumber(slow),
        above |-> IsNumber(fast) /\ IsNumber(slow) /\ Val(fast) > Val(slow)]

\* C24: with both EMAs defined on the current bar, the emaCross sub-signal
\* has magnitude 1.0 only when both EMAs were defined on the prior bar and
\* the comparison EMA9 > EMA21 changed from the prior bar to the current
\* one; in every other case its base magnitude is 0.3 (0.5 with the SMA200
\* boost)
C24_FreshCross ==
    (pc = "generated" /\ EmaComparison(0).defined) =>
        LET fresh == /\ EmaComparison(1).defined
                     /\ EmaComparison(1).above /= EmaComparison(0).above
        IN /\ Abs(signals.emaCross) = 1000 => fresh
           /\ ~fresh => Abs(signals.emaCross) \in {300, 500}

(***************************************************************************)
(* Adjacent entries of the signal history                                  *)
(***************************************************************************)
\* C26: in every state of the signal history any two adjacent entries differ
\* in action or differ in score by at least 10, also once entries have been
\* evicted and when offers were rejected between the two
C26_AdjacentDiffer ==
    \A i \in 1..Len(signalHistory) - 1 :
        \/ signalHistory[i].action /= signalHistory[i + 1].action
        \/ Abs(signalHistory[i].score - signalHistory[i + 1].score) >= 10

\* after an eviction, the two newest entries have the same action and scores
\* exactly 10 apart, and an offer between them was rejected
C26_Witness ==
    /\ Len(recorded) > MAX_HISTORY
    /\ Len(signalHistory) = MAX_HISTORY
    /\ LET last == signalHistory[Len(signalHistory)]
           before == signalHistory[Len(signalHistory) - 1]
       IN /\ last.action = before.action
          /\ Abs(last.score - before.score) = 10
          /\ last.timestamp - before.timestamp >= 2

(***************************************************************************)
(* The warm-up of adx                                                      *)
(***************************************************************************)
\* C25: adx returns arrays of the input length; with fewer than
\* 2 * period + 1 bars every ADX entry is null, and with n >= 2 * period + 1
\* bars the ADX is null at every index below 2 * period and a number at
\* every index from 2 * period to n - 1
C25_AdxWarmUp ==
    pc = "returned" =>
        LET n == Len(args.closes)
            period == args.period
        IN /\ Len(result.adx) = n
           /\ Len(result.plusDI) = n
           /\ Len(result.minusDI) = n
           /\ \A i \in 0..n - 1 :
                  IF n >= 2 * period + 1 /\ i >= 2 * period
                  THEN IsNumber(At(result.adx, i)) /\ Val(At(result.adx, i)) \in 0..100
                  ELSE IsNull(At(result.adx, i))

\* exactly 2 * period + 1 bars: the only ADX value is the last entry
C25_Witness ==
    /\ pc = "returned"
    /\ Len(args.closes) = 2 * args.period + 1
    /\ IsNumber(At(result.adx, 2 * args.period))
    /\ IsNull(At(result.adx, 2 * args.period - 1))
    /\ \E i \in 1..Len(args.closes) : args.highs[i] /= args.lows[i]

(***************************************************************************)
(* The smoothed sums of adx                                                *)
(***************************************************************************)
\* Wilder's smoothed sums in which every value is folded in once and in
\* order: the sum of values[0 .. period - 1], then for every i >= period
\* the previous sum less its period-th part plus values[i]
WilderSums(values, period) ==
    Loop(LAMBDA prev, i : prev - prev \div period + values[i + 1] * SMOOTH_SCALE,
         period, Len(values) - 1, SumRange(values, 0, period - 1) * SMOOTH_SCALE)

\* C30: the +DI and -DI of every bar from period + 1 on are those of the
\* smoothed sums of true range, +DM and -DM into which the values of all
\* bars up to that bar, its own included, have been folded once and in order
C30_NoBarSkipped ==
    (pc = "returned" /\ Len(args.closes) >= 2 * args.period + 1) =>
        LET n == Len(args.closes)
            period == args.period
            tr == [j \in 1..n - 1 |-> TrueRange(args.highs, args.lows, args.closes, j)]
            upMove(j) == args.highs[j + 1] - args.highs[j]
            downMove(j) == args.lows[j] - args.lows[j + 1]
            plusDM == [j \in 1..n - 1 |->
                          IF upMove(j) > downMove(j) /\ upMove(j) > 0 THEN upMove(j) ELSE 0]
            minusDM == [j \in 1..n - 1 |->
                           IF downMove(j) > upMove(j) /\ downMove(j) > 0
                           THEN downMove(j) ELSE 0]
            smoothTR == WilderSums(tr, period)
            smoothPlusDM == WilderSums(plusDM, period)
            smoothMinusDM == WilderSums(minusDM, period)
        IN \A i \in period..n - 2 :
               LET row == AdxRow([tr |-> smoothTR[i - period + 1],
                                  plus |-> smoothPlusDM[i - period + 1],
                                  minus |-> smoothMinusDM[i - period + 1]])
               IN /\ At(result.plusDI, i + 1) = Num(row.pdi)
                  /\ At(result.minusDI, i + 1) = Num(row.mdi)

(***************************************************************************)
(* Prediction mode                                                         *)
(***************************************************************************)
\* the momentum-weighted bias of a snapshot: RSI distance from 50, MACD
\* histogram, fast-minus-slow EMA difference, price against the fast EMA,
\* stochastic extremes
MomentumBias(ind) ==
    (Val(ind.rsi.value) - 50)
    + (IF ~IsNull(ind.macd.histogram) THEN Val(ind.macd.histogram) * 150 ELSE 0)
    + (Val(ind.ema.ema9) - Val(ind.ema.ema21)) * 15
    + (IF ind.price.current > Val(ind.ema.ema9) THEN 15 ELSE -15)
    + (IF ~IsNull(ind.stochastic.k) /\ Val(ind.stochastic.k) < 20 THEN 10 ELSE 0)
    - (IF ~IsNull(ind.stochastic.k) /\ Val(ind.stochastic.k) > 80 THEN 10 ELSE 0)

\* C22: in prediction mode on '5m' the action is UP whenever the momentum
\* bias of the snapshot is positive and DOWN whenever it is negative
C22_BiasSign ==
    (/\ pc \in {"forced", "predicted"}
     /\ IsNumber(indicators.rsi.value)
     /\ IsNumber(indicators.ema.ema9)
     /\ IsNumber(indicators.ema.ema21)) =>
        /\ MomentumBias(indicators) > 0 => signalType.action = "UP"
        /\ MomentumBias(indicators) < 0 => signalType.action = "DOWN"

InSection(id) == calls[id].pc \in {"computed", "generated"}

\* C21: the section computeAll -> generateSignal -> recordSignal of one
\* fetchAndAnalyze invocation runs to completion before that section of
\* another invocation starts, whatever started the invocations and in
\* whatever order their fetches resolve: no two invocations are inside the
\* section together, the executed steps form complete runs of the three
\* steps by one invocation each, and every recordSignal call starts from
\* the history left by the call before it
C21_SectionsSerialized ==
    /\ \A a, b \in 1..Len(calls) : (InSection(a) /\ InSection(b)) => a = b
    /\ \A i \in 1..Len(sectionLog) :
          /\ sectionLog[i].step = AnalysisSteps[((i - 1) % 3) + 1]
          /\ (i - 1) % 3 /= 0 => sectionLog[i].call = sectionLog[i - 1].call
    /\ \A id \in 1..Len(calls) :
          InSection(id) => (running = id /\ sectionLog[Len(sectionLog)].call = id)

\* two invocations with overlapping fetches, resolved in the opposite
\* order, have both completed their sections
C21_Witness ==
    /\ Len(sectionLog) = 6
    /\ sectionLog[1].call = 2
    /\ sectionLog[6].call = 1
    /\ calls[1].pc = "done"
    /\ calls[2].pc = "done"
    /\ Len(signalHistory) = 2

\* C28: the candles analysed for the current signal were fetched for the
\* pair the signal is shown under and for the timeframe passed to
\* generateSignal; and once no fetch is outstanding and none has failed,
\* currentSignal is the one computed for the selected timeframe
C28_SignalMatchesSelection ==
    /\ currentSignal /= Null =>
          /\ currentSignal.indicators.candles.timeframe = currentSignal.timeframe
          /\ currentSignal.indicators.candles.pair = currentSignal.pair
    /\ (pc = "app" /\ \A id \in 1..Len(calls) : calls[id].pc = "done") =>
          /\ currentSignal.timeframe = currentTimeframe
          /\ currentSignal.indicators.candles.timeframe = currentTimeframe

(***************************************************************************)
(* The price stream                                                        *)
(***************************************************************************)
\* a socket has closed while close() had not been called, and the reconnect
\* it scheduled has not been performed yet
ReconnectScheduled == reconnectTimer = "pending"

\* the scheduled reconnect has been performed: connect() has run again
ReconnectPerformed == reconnectTimer = "fired"

\* after close() has been called no WebSocket is constructed
NoSocketAfterClose == [][isClosing => Len(sockets') = Len(sockets)]_vars

\* C29 as stated: every reconnect scheduled by an unexpected socket close
\* is eventually performed, and after close() no new WebSocket is opened
C29_AlwaysReconnects ==
    /\ ReconnectScheduled ~> ReconnectPerformed
    /\ NoSocketAfterClose

\* C29: every reconnect scheduled by an unexpected socket close is
\* eventually performed unless close() is called on the stream first, and
\* after close() no new WebSocket is opened
C29_ReconnectsUnlessClosed ==
    /\ ReconnectScheduled ~> (ReconnectPerformed \/ isClosing)
    /\ NoSocketAfterClose

\* a reconnect has been performed, the new socket has closed in its turn,
\* and close() has cleared the second reconnect
C29_Witness ==
    /\ Len(sockets) = 2
    /\ sockets[1] = "CLOSED"
    /\ sockets[2] = "CLOSED"
    /\ reconnectTimer = "cleared"
    /\ isClosing

====
